---- MODULE Spec2Model ----
(***************************************************************************)
(* The real-time collaboration engine of app/websockets.py: the            *)
(* ConnectionManager, CollaborationManager and ChatManager singletons and  *)
(* the websocket_endpoint handler tasks that drive them on one asyncio     *)
(* event loop.                                                             *)
(*                                                                         *)
(* Scheduling.  Every handler is a task of the single event loop.  A task  *)
(* runs alone from one await of I/O to the next (accept, send_text, close, *)
(* receive_text, a redis call); `running` names the task that holds the    *)
(* loop, NoTask when every task is suspended.  An action guarded by        *)
(* running = c is a piece of straight-line code of task c; an action       *)
(* guarded by running = NoTask is the completion of an awaited operation,  *)
(* and any suspended task may be the one that resumes.                     *)
(*                                                                         *)
(* Each task carries its call stack: stack[c] is a sequence of frames, the *)
(* endpoint frame at the bottom.  `await f(...)` of a coroutine of the     *)
(* module pushes a frame, its return pops it, an exception unwinds to the  *)
(* try/except/finally of websocket_endpoint.                               *)
(***************************************************************************)
EXTENDS Integers, Sequences, FiniteSets, TLC

\* ------------------------------------------------------------- bounds
\* Inbound frames the clients send in one behaviour, all connections together.
MaxFrames == 1
\* Transports the network breaks in one behaviour.
MaxFaults == 1
\* Connections opened in one behaviour that starts with no connection.
MaxConns == 2
\* Frames sent in one behaviour of the collaborative-editing scenario.
MaxChanges == 3
\* Chat frames sent in one behaviour of the chat scenario.
MaxChats == 3
\* Frames sent and transports lost in one behaviour of the scenario with
\* chat, cursor moves and changes.
MaxPosts == 1
MaxLost == 1
\* Chat frames and clients that stop reading, in the scenario of a hung client.
MaxStalled == 2
MaxHung == 1
\* Sessions started and transports lost, in the scenario with two rooms.
MaxStarts == 1
MaxLeft == 1
\* Frames sent in the scenario of changes and ends of sessions.
MaxEdits == 3
\* Frames that are malformed, of an unknown type or pings, in the full room.
MaxOdd == 2
\* Chat messages and document changes received, and redis calls that fail,
\* while redis is unreliable.
\* Clients that stop reading while the reaper is at work.
MaxStuck == 1
\* Metrics publishes that fail while redis is unreliable.
MaxMissed == 1
MaxStored == 2
\* Chat messages in the room's log when the log is about to reach its cap,
\* and the messages sent then.
MaxBacklog == 99
MaxOver == 2
\* Cursor moves in one behaviour.
MaxMoves == 3
\* Frames in a behaviour in which a session is ended and started again.
MaxRounds == 4
\* The largest limit a chat history is asked with.
MaxLimit == 4
MaxOutages == 1

\* ---------------------------------------------------- program constants
\* `if len(self.chat_rooms[room_id]) > 100`
ChatCap == 100
\* `limit: int = 50` of get_chat_history
HistoryLimit == 50

\* -------------------------------------------------------------- universe
\* User ids, in the order their hash-table slots are walked when a set of
\* user ids is iterated (CPython iterates a set by slot).
UserSeq == <<"A", "B", "C">>
RoomSeq == <<"R1", "R2">>
Users == {UserSeq[i] : i \in 1..Len(UserSeq)}
Rooms == {RoomSeq[i] : i \in 1..Len(RoomSeq)}
Docs == {"D1"}
\* One WebSocket object, and the handler task serving it, per connection;
\* the two tasks start_background_tasks creates; NoTask is the id of no
\* task.
Conns == {1, 2, 3}
Reaper == Cardinality(Conns) + 1
Monitor == Cardinality(Conns) + 2
Tasks == Conns \cup {Reaper, Monitor}
NoTask == Cardinality(Conns) + 3
NoUser == "none"
NoRoom == "none"
\* f"{room_id}:{document_id}"
SessionKey(room, doc) == <<room, doc>>
NoKey == <<"none", "none">>
Keys == {SessionKey(r, d) : r \in Rooms, d \in Docs}

VARIABLES
    stack,                  \* task -> its call stack
    running,                \* the task holding the event loop, or NoTask
    ws,                     \* WebSocket -> "new" | "open" | "gone" | "hung" | "closed"
                            \*   | "rejected" (closed with code 4001)
    inbox,                  \* WebSocket -> the events its client has been sent
    active_connections,     \* ConnectionManager: user_id -> WebSocket
    user_rooms,             \* ConnectionManager: user_id -> set of room_ids
    room_users,             \* ConnectionManager: room_id -> set of user_ids
    user_sessions,          \* ConnectionManager: user_id -> session data
    collaboration_sessions, \* CollaborationManager: session_key -> session
    cursor_positions,       \* CollaborationManager: room_id -> user_id -> position
    chat_rooms,             \* ChatManager: room_id -> messages
    document_changes,       \* redis list document_changes:{session_key}
    chat_messages,          \* redis list chat_messages:{room_id}
    websocket_metrics,      \* redis hash websocket_metrics: field -> value
    next_id,                \* the next uuid4
    instance,               \* session_key -> sessions created under it so far
    accepted,               \* <<session_key, instance>> -> the changes accepted
    send_failures,          \* the sends that raised: [event, user]
    frames_left,            \* inbound frames the clients may still send
    last,                   \* WebSocket -> the frame last received on it
    faults_left             \* transports the network may still break

vars == <<stack, running, ws, inbox, active_connections, user_rooms, room_users,
          user_sessions, collaboration_sessions, cursor_positions, chat_rooms,
          document_changes, chat_messages, websocket_metrics, next_id, instance,
          accepted, send_failures,
          frames_left, last, faults_left>>

membership == <<active_connections, user_rooms, room_users>>
registry == <<membership, user_sessions>>
managers == <<collaboration_sessions, cursor_positions, chat_rooms>>
redis == <<document_changes, chat_messages, websocket_metrics>>
\* History of the sessions and of the sends, kept for the properties only.
sessions_history == <<instance, accepted>>
history == <<sessions_history, send_failures>>
counters == <<next_id, history, frames_left, last, faults_left>>

\* ------------------------------------------------------------ dictionaries
EmptyDict == [k \in {} |-> 0]
Put(d, k, v) == [x \in DOMAIN d \cup {k} |-> IF x = k THEN v ELSE d[x]]
Del(d, k) == [x \in DOMAIN d \ {k} |-> d[x]]
\* d.get(k, default)
Get(d, k, default) == IF k \in DOMAIN d THEN d[k] ELSE default

\* ------------------------------------------------------------------ events
\* An outbound event (the json.dumps'ed dict).  `user` is the user the event
\* is about (its author), `key` a session key, `n` a version or a message
\* id, `inst` the instance of the session (which creation of the key),
\* `users` the member list of room_info, `messages` the messages of
\* chat_history.
Event(type, user, key, n, inst) ==
    [type |-> type, user |-> user, key |-> key, n |-> n, inst |-> inst,
     users |-> {}, messages |-> <<>>]
NoEvent == Event("none", NoUser, NoKey, 0, 0)

\* -------------------------------------------------------------- call frames
\* fn/pc: the coroutine and where it stands; user, room: its arguments;
\* msg: the event it is sending; excl: exclude_user; sock: the WebSocket an
\* awaited transport call was made on; used, pos: the set iterator of a for
\* loop (the size of the set when the iterator was made, the last slot
\* walked); snap: the content of the iterated set when the iterator was made.
Frame(fn, pc, user, room) ==
    [fn |-> fn, pc |-> pc, user |-> user, room |-> room, msg |-> NoEvent,
     excl |-> NoUser, sock |-> NoTask, used |-> 0, pos |-> 0, snap |-> {}]

Top(c) == stack[c][Len(stack[c])]
At(c, fn, pc) == /\ stack[c] # <<>>
                 /\ Top(c).fn = fn
                 /\ Top(c).pc = pc
Bottom(c) == stack[c][1]
Popped(c) == SubSeq(stack[c], 1, Len(stack[c]) - 1)
\* The stack with its top frame replaced.
WithTop(c, f) == Append(Popped(c), f)

\* The first slot after `pos` of `seq` that holds a member of S, 0 if none:
\* the set iterator's scan for its next entry.
NextSlot(S, seq, pos) ==
    LET later == {i \in (pos + 1)..Len(seq) : seq[i] \in S}
    IN  IF later = {} THEN 0 ELSE CHOOSE i \in later : \A j \in later : i <= j

\* list(a_set): the members in slot order.
RECURSIVE ListFrom(_, _, _)
ListFrom(S, seq, pos) ==
    LET i == NextSlot(S, seq, pos)
    IN  IF i = 0 THEN <<>> ELSE <<seq[i]>> \o ListFrom(S, seq, i)

\* The stacks of all tasks, those of the connection handlers being
\* `handlers`: each background task sleeps between two iterations of its
\* loop (lines 437 and 456).
Stacks(handlers) ==
    [t \in Tasks |->
        CASE t \in Conns -> handlers[t]
          [] t = Reaper -> <<Frame("cleanup_inactive_sessions", "sleep", NoUser, NoRoom)>>
          [] t = Monitor -> <<Frame("monitor_connections", "sleep", NoUser, NoRoom)>>]

\* -------------------------------------------------------------- exceptions
\* A background task that has no try around the body of its loop: the
\* exception ends the task.
background_except_fatal(c) ==
    /\ stack' = [stack EXCEPT ![c] = <<>>]
    /\ running' = NoTask

\* lines 434-435 and 453-454: `except Exception` in the loop of a background
\* task catches whatever the iteration raised.
background_except(c) ==
    /\ stack' = [stack EXCEPT ![c] = <<[Bottom(c) EXCEPT !.pc = "except"]>>]
    /\ running' = c

\* An exception raised in task c and caught by no frame above the endpoint:
\* it unwinds to the try of websocket_endpoint, whose except clauses log it
\* and whose finally clause then runs.  Raised by the disconnect of the
\* finally clause itself, it ends the task.
\* Raised in a background task, it unwinds to the try of the task's loop.
Raise(c) ==
    IF c \in Conns
    THEN /\ stack' = [stack EXCEPT ![c] =
                         <<[Bottom(c) EXCEPT !.pc = IF Bottom(c).pc = "teardown"
                                                    THEN "crashed" ELSE "finally"]>>]
         /\ running' = IF Bottom(c).pc = "teardown" THEN NoTask ELSE c
    ELSE background_except(c)

\* ------------------------------------------------------- ConnectionManager
\* The frame of broadcast_to_room(room, msg, exclude_user=excl) as it is
\* entered over the room table ru: the for loop's iterator is made on entry.
BroadcastFrame(ru, room, msg, excl) ==
    [Frame("broadcast_to_room", IF room \in DOMAIN ru THEN "loop" ELSE "skip",
           NoUser, room)
       EXCEPT !.msg = msg, !.excl = excl,
              !.used = IF room \in DOMAIN ru THEN Cardinality(ru[room]) ELSE 0]

\* What the rest of a send leaves alone.
beside_send == <<ws, registry, managers, redis, next_id, sessions_history,
                 frames_left, last, faults_left>>

\* `await self.send_personal_message(user, msg)` made by the top frame of
\* task c, which stands as `caller` during the call (lines 97-102).  A user
\* with no registry entry makes the call return at once.  Otherwise
\* send_text is called on the user's WebSocket: on a transport that is not
\* open it raises at once, and the except clause calls disconnect; on an
\* open one it writes the event, so that the events of one WebSocket are
\* sent in the order of the calls, and the task suspends until the
\* transport has taken the write.
CallSend(c, caller, user, msg) ==
    LET sock == active_connections[user]
        call == [Frame("send_personal_message", "send", user, NoRoom)
                   EXCEPT !.msg = msg, !.sock = sock]
    IN  IF user \notin DOMAIN active_connections
        THEN /\ stack' = [stack EXCEPT ![c] = WithTop(c, caller)]
             /\ running' = c
             /\ UNCHANGED <<inbox, send_failures>>
        ELSE IF ws[sock] \in {"open", "hung"}
        THEN /\ stack' = [stack EXCEPT ![c] = Append(WithTop(c, caller), call)]
             /\ running' = NoTask
             /\ inbox' = IF ws[sock] = "open"
                         THEN [inbox EXCEPT ![sock] = Append(@, msg)]
                         ELSE inbox
             /\ UNCHANGED send_failures
        ELSE /\ stack' = [stack EXCEPT ![c] =
                             WithTop(c, caller) \o
                             <<[call EXCEPT !.pc = "except"],
                               Frame("disconnect", "enter", user, NoRoom)>>]
             /\ running' = c
             /\ send_failures' = send_failures \cup {[event |-> msg, user |-> user]}
             /\ UNCHANGED inbox

\* websocket_endpoint(websocket, room_id, token) is called: a new task.
websocket_endpoint(c, u, r) ==
    /\ running = NoTask
    /\ stack[c] = <<>>
    /\ Cardinality({d \in Conns : stack[d] # <<>>}) < MaxConns
    /\ stack' = [stack EXCEPT ![c] = <<Frame("websocket_endpoint", "auth", u, r)>>]
    /\ UNCHANGED <<running, ws, inbox, registry, managers, redis, counters>>

\* An endpoint that closes the WebSocket of a rejected token with the
\* default close code.
endpoint_auth_plain(c, ok) ==
    /\ running = NoTask
    /\ At(c, "websocket_endpoint", "auth")
    /\ IF ok
       THEN /\ stack' = [stack EXCEPT ![c] =
                            <<[Top(c) EXCEPT !.pc = "connect"],
                              Frame("connect", "accept", Top(c).user, Top(c).room)>>]
            /\ ws' = ws
       ELSE /\ stack' = [stack EXCEPT ![c] = <<[Top(c) EXCEPT !.pc = "rejected"]>>]
            /\ ws' = [ws EXCEPT ![c] = "closed"]
    /\ UNCHANGED <<running, inbox, registry, managers, redis, counters>>

\* get_current_user_from_token returns: a user, or None and the endpoint
\* closes the WebSocket with code 4001 and returns (user is None: the
\* finally clause disconnects nobody).
endpoint_auth(c, ok) ==
    /\ running = NoTask
    /\ At(c, "websocket_endpoint", "auth")
    /\ IF ok
       THEN /\ stack' = [stack EXCEPT ![c] =
                            <<[Top(c) EXCEPT !.pc = "connect"],
                              Frame("connect", "accept", Top(c).user, Top(c).room)>>]
            /\ ws' = ws
       ELSE /\ stack' = [stack EXCEPT ![c] = <<[Top(c) EXCEPT !.pc = "rejected"]>>]
            /\ ws' = [ws EXCEPT ![c] = "rejected"]
    /\ UNCHANGED <<running, inbox, registry, managers, redis, counters>>

\* A connect that leaves the registry entry of a user who has one.
connect_accept_keep(c) ==
    /\ running = NoTask
    /\ At(c, "connect", "accept")
    /\ ws[c] = "new"
    /\ LET u == Top(c).user
           r == Top(c).room
           ru == Put(room_users, r, Get(room_users, r, {}) \cup {u})
       IN  /\ ws' = [ws EXCEPT ![c] = "open"]
           /\ active_connections' = IF u \in DOMAIN active_connections
                                     THEN active_connections
                                     ELSE Put(active_connections, u, c)
           /\ user_rooms' = Put(user_rooms, u, Get(user_rooms, u, {}) \cup {r})
           /\ room_users' = ru
           /\ user_sessions' = Put(user_sessions, u,
                                   [room_id |-> r, last_activity |-> "fresh"])
           /\ stack' = [stack EXCEPT ![c] =
                           Append(WithTop(c, [Top(c) EXCEPT !.pc = "joined"]),
                                  BroadcastFrame(ru, r, Event("user_joined", u, NoKey, 0, 0), u))]
           /\ running' = c
    /\ UNCHANGED <<inbox, managers, redis, counters>>

\* connect, lines 30-56: accept returns, the connection is stored, the user
\* joins the room, the session data is set, and user_joined is broadcast.
connect_accept(c) ==
    /\ running = NoTask
    /\ At(c, "connect", "accept")
    /\ ws[c] = "new"
    /\ LET u == Top(c).user
           r == Top(c).room
           ru == Put(room_users, r, Get(room_users, r, {}) \cup {u})
       IN  /\ ws' = [ws EXCEPT ![c] = "open"]
           /\ active_connections' = Put(active_connections, u, c)
           /\ user_rooms' = Put(user_rooms, u, Get(user_rooms, u, {}) \cup {r})
           /\ room_users' = ru
           /\ user_sessions' = Put(user_sessions, u,
                                   [room_id |-> r, last_activity |-> "fresh"])
           /\ stack' = [stack EXCEPT ![c] =
                           Append(WithTop(c, [Top(c) EXCEPT !.pc = "joined"]),
                                  BroadcastFrame(ru, r, Event("user_joined", u, NoKey, 0, 0), u))]
           /\ running' = c
    /\ UNCHANGED <<inbox, managers, redis, counters>>

\* connect, lines 58-64: the broadcast has returned; room_info goes to the
\* new user.
connect_room_info(c) ==
    /\ running = c
    /\ At(c, "connect", "joined")
    /\ LET u == Top(c).user
           r == Top(c).room
       IN  CallSend(c, [Top(c) EXCEPT !.pc = "info"], u,
                    [Event("room_info", u, NoKey, 0, 0) EXCEPT !.users = room_users[r]])
    /\ UNCHANGED beside_send

\* connect, line 66: returns to the endpoint.
connect_return(c) ==
    /\ running = c
    /\ At(c, "connect", "info")
    /\ stack' = [stack EXCEPT ![c] = Popped(c)]
    /\ UNCHANGED <<running, ws, inbox, registry, managers, redis, counters>>

\* broadcast_to_room, lines 106-109: one turn of the for loop.  The set
\* iterator raises RuntimeError when the set's size is not the one it was
\* made with; else it yields the member in the next slot, or ends the loop.
broadcast_to_room(c) ==
    /\ running = c
    /\ stack[c] # <<>>
    /\ Top(c).fn = "broadcast_to_room"
    /\ LET f == Top(c)
           members == IF f.pc = "loop" THEN room_users[f.room] ELSE {}
           i == NextSlot(members, UserSeq, f.pos)
       IN  IF f.pc = "loop" /\ Cardinality(members) # f.used
           THEN /\ Raise(c)
                /\ UNCHANGED <<inbox, send_failures>>
           ELSE IF i = 0
           THEN /\ stack' = [stack EXCEPT ![c] = Popped(c)]
                /\ running' = c
                /\ UNCHANGED <<inbox, send_failures>>
           ELSE IF UserSeq[i] = f.excl
           THEN /\ stack' = [stack EXCEPT ![c] = WithTop(c, [f EXCEPT !.pos = i])]
                /\ running' = c
                /\ UNCHANGED <<inbox, send_failures>>
           ELSE CallSend(c, [f EXCEPT !.pos = i], UserSeq[i], f.msg)
    /\ UNCHANGED beside_send

\* send_personal_message, lines 98-102: the awaited send_text returns, or
\* raises because the transport was lost or closed while it waited; the
\* raise is caught and the user taken to disconnect.  On a hung transport
\* the send does not complete.
send_personal_message(c) ==
    /\ running = NoTask
    /\ At(c, "send_personal_message", "send")
    /\ LET f == Top(c)
       IN  /\ ws[f.sock] # "hung"
           /\ IF ws[f.sock] = "open"
              THEN /\ stack' = [stack EXCEPT ![c] = Popped(c)]
                   /\ UNCHANGED send_failures
              ELSE /\ stack' = [stack EXCEPT ![c] =
                                   Append(WithTop(c, [f EXCEPT !.pc = "except"]),
                                          Frame("disconnect", "enter", f.user, NoRoom))]
                   /\ send_failures' = send_failures \cup
                                           {[event |-> f.msg, user |-> f.user]}
    /\ running' = c
    /\ UNCHANGED <<inbox, beside_send>>

\* send_personal_message: the disconnect of its except clause has returned.
send_personal_message_return(c) ==
    /\ running = c
    /\ At(c, "send_personal_message", "except")
    /\ stack' = [stack EXCEPT ![c] = Popped(c)]
    /\ UNCHANGED <<running, ws, inbox, registry, managers, redis, counters>>

\* disconnect, lines 70-72: a registered user's WebSocket is looked up and
\* its close awaited.
disconnect_enter(c) ==
    /\ running = c
    /\ At(c, "disconnect", "enter")
    /\ LET f == Top(c)
       IN  IF f.user \in DOMAIN active_connections
           THEN /\ stack' = [stack EXCEPT ![c] =
                                WithTop(c, [f EXCEPT !.pc = "close",
                                                     !.sock = active_connections[f.user]])]
                /\ running' = NoTask
           ELSE /\ stack' = [stack EXCEPT ![c] = WithTop(c, [f EXCEPT !.pc = "rooms"])]
                /\ running' = c
    /\ UNCHANGED <<ws, inbox, registry, managers, redis, counters>>

\* What websocket.close() does on a transport in state s: it closes an open
\* (or hung) one; on one the server has already closed it raises
\* RuntimeError; on one whose peer is gone it returns or raises, as the
\* server library decides (closes |-> which).
CloseRaises(s, closes) ==
    \/ s = "closed"
    \/ s = "gone" /\ ~closes

\* disconnect, lines 72-73: close returns or raises; after it the registry
\* entry is deleted (a KeyError if another task has deleted it meanwhile).
disconnect_close(c, closes) ==
    /\ running = NoTask
    /\ At(c, "disconnect", "close")
    /\ LET f == Top(c)
       IN  IF CloseRaises(ws[f.sock], closes)
           THEN /\ Raise(c)
                /\ UNCHANGED <<ws, active_connections>>
           ELSE /\ ws' = [ws EXCEPT ![f.sock] = "closed"]
                /\ IF f.user \in DOMAIN active_connections
                   THEN /\ active_connections' = Del(active_connections, f.user)
                        /\ stack' = [stack EXCEPT ![c] = WithTop(c, [f EXCEPT !.pc = "rooms"])]
                        /\ running' = c
                   ELSE /\ Raise(c)
                        /\ UNCHANGED active_connections
    /\ UNCHANGED <<inbox, user_rooms, room_users, user_sessions, managers, redis, counters>>

\* disconnect, lines 76-77: the iterator over the user's rooms is made.
disconnect_rooms(c) ==
    /\ running = c
    /\ At(c, "disconnect", "rooms")
    /\ LET f == Top(c)
       IN  stack' = [stack EXCEPT ![c] = WithTop(c,
                IF f.user \in DOMAIN user_rooms
                THEN [f EXCEPT !.pc = "room_loop", !.pos = 0,
                               !.used = Cardinality(user_rooms[f.user]),
                               !.snap = user_rooms[f.user]]
                ELSE [f EXCEPT !.pc = "cleanup"])]
    /\ UNCHANGED <<running, ws, inbox, registry, managers, redis, counters>>

\* disconnect, lines 77-87: one turn of the loop over the user's rooms (the
\* user leaves the room, user_left is broadcast to it), and on its end the
\* deletion of user_rooms[user_id], a KeyError if it is gone.  The iterated
\* set object outlives the deletion of its key by another task.
disconnect_room_loop(c) ==
    /\ running = c
    /\ At(c, "disconnect", "room_loop")
    /\ LET f == Top(c)
           rooms == Get(user_rooms, f.user, f.snap)
           i == NextSlot(rooms, RoomSeq, f.pos)
           ru == [room_users EXCEPT ![RoomSeq[i]] = @ \ {f.user}]
       IN  IF Cardinality(rooms) # f.used
           THEN /\ Raise(c)
                /\ UNCHANGED <<user_rooms, room_users>>
           ELSE IF i = 0
           THEN IF f.user \in DOMAIN user_rooms
                THEN /\ user_rooms' = Del(user_rooms, f.user)
                     /\ stack' = [stack EXCEPT ![c] = WithTop(c, [f EXCEPT !.pc = "cleanup"])]
                     /\ UNCHANGED <<running, room_users>>
                ELSE /\ Raise(c)
                     /\ UNCHANGED <<user_rooms, room_users>>
           ELSE IF RoomSeq[i] \in DOMAIN room_users
           THEN /\ room_users' = ru
                /\ stack' = [stack EXCEPT ![c] =
                                Append(WithTop(c, [f EXCEPT !.pos = i]),
                                       BroadcastFrame(ru, RoomSeq[i],
                                                      Event("user_left", f.user, NoKey, 0, 0),
                                                      NoUser))]
                /\ UNCHANGED <<running, user_rooms>>
           ELSE /\ stack' = [stack EXCEPT ![c] = WithTop(c, [f EXCEPT !.pos = i])]
                /\ UNCHANGED <<running, user_rooms, room_users>>
    /\ UNCHANGED <<ws, inbox, active_connections, user_sessions, managers, redis, counters>>

\* disconnect, lines 90-93: the session data is deleted; returns.
disconnect_cleanup(c) ==
    /\ running = c
    /\ At(c, "disconnect", "cleanup")
    /\ user_sessions' = Del(user_sessions, Top(c).user)
    /\ stack' = [stack EXCEPT ![c] = Popped(c)]
    /\ UNCHANGED <<running, ws, inbox, active_connections, user_rooms, room_users,
                   managers, redis, counters>>

\* ------------------------------------------------------ inbound messages
\* A frame a client sends: its type and the fields the handlers read
\* (document_id, session_key, position); `text` tells what json.loads makes
\* of the frame: an object, an array (any JSON value that is no object), or
\* nothing, the text being no JSON.
Message(type, doc, key, position) ==
    [type |-> type, document_id |-> doc, session_key |-> key, position |-> position,
     text |-> "object"]
NoDoc == "none"
\* message.get("type") of an object without the field.
NoType == "none"
NoFrame == [Message(NoType, NoDoc, <<"none", "none">>, 0) EXCEPT !.text = "none"]
Positions == {1, 2}
ChatFrames == {Message("chat_message", NoDoc, NoKey, 0)}
CursorFrames == {Message("cursor_update", NoDoc, NoKey, p) : p \in Positions}
ChangeFrames == {Message("document_change", NoDoc, k, 0) : k \in Keys \cup {NoKey}}
StartFrames == {Message("start_collaboration", d, NoKey, 0) : d \in Docs \cup {NoDoc}}
EndFrames == {Message("end_collaboration", d, NoKey, 0) : d \in Docs \cup {NoDoc}}
OtherFrames == {Message("ping", NoDoc, NoKey, 0), Message("unknown", NoDoc, NoKey, 0)}
\* Frames that are no JSON, JSON that is no object, an object without type.
MalformedFrames == {[Message(NoType, NoDoc, NoKey, 0) EXCEPT !.text = t] :
                       t \in {"garbage", "array", "object"}}
Frames == ChatFrames \cup CursorFrames \cup ChangeFrames \cup StartFrames
              \cup EndFrames \cup OtherFrames \cup MalformedFrames

\* The stack of task c as its endpoint awaits a handler that has pushed the
\* frames fs.
Handling(c, fs) == <<[Bottom(c) EXCEPT !.pc = "handle"]>> \o fs

\* --------------------------------------------------- CollaborationManager
\* A version read and written back without the increment.
NextVersionStale(v) == v

\* `self.collaboration_sessions[session_key]["version"] += 1`
NextVersion(v) == v + 1

\* A start_collaboration_session that stores a new session under the key
\* whether one is active or not.
start_collaboration_session_anew(c, room, doc, user) ==
    LET key == SessionKey(room, doc)
        inst == Get(instance, key, 0) + 1
    IN  /\ collaboration_sessions' =
              Put(collaboration_sessions, key,
                  [document_id |-> doc, room_id |-> room, started_by |-> user,
                   participants |-> {user}, version |-> 0])
        /\ cursor_positions' = IF room \in DOMAIN cursor_positions
                               THEN cursor_positions
                               ELSE Put(cursor_positions, room, EmptyDict)
        /\ instance' = Put(instance, key, inst)
        /\ accepted' = Put(accepted, <<key, inst>>, <<>>)
        /\ stack' = [stack EXCEPT ![c] = Handling(c,
              <<Frame("start_collaboration_session", "broadcast", user, room),
                BroadcastFrame(room_users, room,
                               Event("collaboration_started", user, key, 0, inst),
                               NoUser)>>)]
        /\ running' = c
        /\ UNCHANGED <<inbox, chat_rooms, membership, redis, next_id, send_failures>>

\* start_collaboration_session, lines 135-159.
start_collaboration_session(c, room, doc, user) ==
    LET key == SessionKey(room, doc)
        fresh == key \notin DOMAIN collaboration_sessions
        inst == IF fresh THEN Get(instance, key, 0) + 1 ELSE instance[key]
        s == IF fresh
             THEN [document_id |-> doc, room_id |-> room, started_by |-> user,
                   participants |-> {}, version |-> 0]
             ELSE collaboration_sessions[key]
    IN  /\ collaboration_sessions' =
              Put(collaboration_sessions, key,
                  [s EXCEPT !.participants = @ \cup {user}])
        /\ cursor_positions' = IF room \in DOMAIN cursor_positions
                               THEN cursor_positions
                               ELSE Put(cursor_positions, room, EmptyDict)
        /\ instance' = Put(instance, key, inst)
        /\ accepted' = IF fresh THEN Put(accepted, <<key, inst>>, <<>>) ELSE accepted
        /\ stack' = [stack EXCEPT ![c] = Handling(c,
              <<Frame("start_collaboration_session", "broadcast", user, room),
                BroadcastFrame(room_users, room,
                               Event("collaboration_started", user, key, 0, inst),
                               NoUser)>>)]
        /\ running' = c
        /\ UNCHANGED <<inbox, chat_rooms, membership, redis, next_id, send_failures>>

\* An update_cursor_position that replaces the positions of the room by
\* the one of the user.
update_cursor_position_alone(c, room, user, position) ==
    /\ cursor_positions' = Put(cursor_positions, room, Put(EmptyDict, user, position))
    /\ stack' = [stack EXCEPT ![c] = Handling(c,
          <<Frame("update_cursor_position", "broadcast", user, room),
            BroadcastFrame(room_users, room,
                           Event("cursor_update", user, NoKey, position, 0), user)>>)]
    /\ running' = c
    /\ UNCHANGED <<inbox, collaboration_sessions, chat_rooms, membership, redis, next_id, history>>

\* update_cursor_position, lines 165-179.
update_cursor_position(c, room, user, position) ==
    /\ cursor_positions' =
          Put(cursor_positions, room,
              Put(Get(cursor_positions, room, EmptyDict), user, position))
    /\ stack' = [stack EXCEPT ![c] = Handling(c,
          <<Frame("update_cursor_position", "broadcast", user, room),
            BroadcastFrame(room_users, room,
                           Event("cursor_update", user, NoKey, position, 0), user)>>)]
    /\ running' = c
    /\ UNCHANGED <<inbox, collaboration_sessions, chat_rooms, membership, redis, next_id, history>>

\* handle_document_change, lines 183-202: a change whose session_key is
\* missing or names no session is dropped; else the session's version is
\* incremented, the change stamped with it and broadcast to the room.
handle_document_change(c, room, user, key) ==
    IF key = NoKey \/ key \notin DOMAIN collaboration_sessions
    THEN /\ stack' = [stack EXCEPT ![c] = Handling(c, <<>>)]
         /\ running' = c
         /\ UNCHANGED <<inbox, managers, membership, redis, next_id, history>>
    ELSE LET v == NextVersion(collaboration_sessions[key].version)
             change == Event("document_change", user, key, v, instance[key])
         IN  /\ collaboration_sessions' =
                   [collaboration_sessions EXCEPT ![key].version = v]
             /\ accepted' = [accepted EXCEPT ![<<key, instance[key]>>] =
                                 Append(@, change)]
             /\ stack' = [stack EXCEPT ![c] = Handling(c,
                   <<[Frame("handle_document_change", "broadcast", user, room)
                        EXCEPT !.msg = change],
                     BroadcastFrame(room_users, room, change, user)>>)]
             /\ running' = c
             /\ UNCHANGED <<inbox, cursor_positions, chat_rooms, membership, redis, next_id,
                            instance, send_failures>>

\* An end_collaboration_session that removes the participant and keeps the
\* session, whoever remains in it.
end_collaboration_session_keep(c, room, doc, user) ==
    LET key == SessionKey(room, doc)
    IN  /\ collaboration_sessions' =
              IF key \in DOMAIN collaboration_sessions
              THEN [collaboration_sessions EXCEPT ![key].participants = @ \ {user}]
              ELSE collaboration_sessions
        /\ stack' = [stack EXCEPT ![c] = Handling(c, <<>>)]
        /\ running' = c
        /\ UNCHANGED <<inbox, cursor_positions, chat_rooms, membership, redis, next_id, history>>

\* An end_collaboration_session that ends the session whoever remains in it.
end_collaboration_session_any(c, room, doc, user) ==
    LET key == SessionKey(room, doc)
    IN  /\ IF key \notin DOMAIN collaboration_sessions
           THEN /\ collaboration_sessions' = collaboration_sessions
                /\ stack' = [stack EXCEPT ![c] = Handling(c, <<>>)]
           ELSE /\ collaboration_sessions' = Del(collaboration_sessions, key)
                /\ stack' = [stack EXCEPT ![c] = Handling(c,
                      <<Frame("end_collaboration_session", "broadcast", user, room),
                        BroadcastFrame(room_users, room,
                                       Event("collaboration_ended", user, key, 0,
                                             Get(instance, key, 0)),
                                       NoUser)>>)]
        /\ running' = c
        /\ UNCHANGED <<inbox, cursor_positions, chat_rooms, membership, redis, next_id, history>>

\* end_collaboration_session, lines 212-229.
end_collaboration_session(c, room, doc, user) ==
    LET key == SessionKey(room, doc)
        left == collaboration_sessions[key].participants \ {user}
    IN  /\ IF key \notin DOMAIN collaboration_sessions
           THEN /\ collaboration_sessions' = collaboration_sessions
                /\ stack' = [stack EXCEPT ![c] = Handling(c, <<>>)]
           ELSE IF left # {}
           THEN /\ collaboration_sessions' =
                      [collaboration_sessions EXCEPT ![key].participants = left]
                /\ stack' = [stack EXCEPT ![c] = Handling(c, <<>>)]
           ELSE /\ collaboration_sessions' = Del(collaboration_sessions, key)
                /\ stack' = [stack EXCEPT ![c] = Handling(c,
                      <<Frame("end_collaboration_session", "broadcast", user, room),
                        BroadcastFrame(room_users, room,
                                       Event("collaboration_ended", user, key, 0,
                                             Get(instance, key, 0)),
                                       NoUser)>>)]
        /\ running' = c
        /\ UNCHANGED <<inbox, cursor_positions, chat_rooms, membership, redis, next_id, history>>

\* A cap that keeps the oldest messages of the log.
CappedOldest(log) ==
    IF Len(log) > ChatCap THEN SubSeq(log, 1, ChatCap) ELSE log

\* ------------------------------------------------------------ ChatManager
\* `self.chat_rooms[room_id][-100:]` once the list is longer than 100.
Capped(log) ==
    IF Len(log) > ChatCap THEN SubSeq(log, Len(log) - ChatCap + 1, Len(log)) ELSE log

\* A send_message that stores the message before it broadcasts it: the
\* redis lpush is awaited first.
send_message_store_first(c, room, user) ==
    LET chat_message == Event("chat_message", user, NoKey, next_id, 0)
    IN  /\ chat_rooms' = Put(chat_rooms, room,
                             Capped(Append(Get(chat_rooms, room, <<>>), chat_message)))
        /\ next_id' = next_id + 1
        /\ stack' = [stack EXCEPT ![c] = Handling(c,
              <<[Frame("send_message", "lpush", user, room)
                   EXCEPT !.msg = chat_message]>>)]
        /\ running' = NoTask
        /\ UNCHANGED <<inbox, collaboration_sessions, cursor_positions, membership, redis, history>>

\* send_message, lines 240-261.
send_message(c, room, user) ==
    LET chat_message == Event("chat_message", user, NoKey, next_id, 0)
    IN  /\ chat_rooms' = Put(chat_rooms, room,
                             Capped(Append(Get(chat_rooms, room, <<>>), chat_message)))
        /\ next_id' = next_id + 1
        /\ stack' = [stack EXCEPT ![c] = Handling(c,
              <<[Frame("send_message", "broadcast", user, room)
                   EXCEPT !.msg = chat_message],
                BroadcastFrame(room_users, room, chat_message, NoUser)>>)]
        /\ running' = c
        /\ UNCHANGED <<inbox, collaboration_sessions, cursor_positions, membership, redis, history>>

\* get_chat_history: `self.chat_rooms[room_id][-limit:]`, [] for a room
\* without messages.
get_chat_history(room, limit) ==
    LET log == Get(chat_rooms, room, <<>>)
    IN  IF limit = 0 \/ Len(log) <= limit THEN log
        ELSE SubSeq(log, Len(log) - limit + 1, Len(log))

\* A handler whose broadcast has returned and that has nothing left to
\* await returns to the endpoint.
handler_return(c) ==
    /\ running = c
    /\ stack[c] # <<>>
    /\ Top(c).fn \in {"start_collaboration_session", "update_cursor_position",
                      "end_collaboration_session"}
    /\ stack' = [stack EXCEPT ![c] = Popped(c)]
    /\ UNCHANGED <<running, ws, inbox, registry, managers, redis, counters>>

\* send_message line 264 and handle_document_change line 205: the broadcast
\* has returned and the redis lpush is awaited.
persist_call(c) ==
    /\ running = c
    /\ stack[c] # <<>>
    /\ Top(c).fn \in {"send_message", "handle_document_change"}
    /\ Top(c).pc = "broadcast"
    /\ stack' = [stack EXCEPT ![c] = WithTop(c, [Top(c) EXCEPT !.pc = "lpush"])]
    /\ running' = NoTask
    /\ UNCHANGED <<ws, inbox, registry, managers, redis, counters>>

\* redis lpush: the entry is pushed at the head of the list.
LPush(list, key, value) == Put(list, key, <<value>> \o Get(list, key, <<>>))

\* lines 205 and 264: the lpush returns; the expire is awaited.
persist_lpush(c) ==
    /\ running = NoTask
    /\ stack[c] # <<>>
    /\ Top(c).pc = "lpush"
    /\ IF Top(c).fn = "send_message"
       THEN /\ chat_messages' = LPush(chat_messages, Top(c).room, Top(c).msg)
            /\ UNCHANGED <<document_changes, websocket_metrics>>
       ELSE /\ document_changes' = LPush(document_changes, Top(c).msg.key, Top(c).msg)
            /\ UNCHANGED <<chat_messages, websocket_metrics>>
    /\ stack' = [stack EXCEPT ![c] = WithTop(c, [Top(c) EXCEPT !.pc = "expire"])]
    /\ UNCHANGED <<running, ws, inbox, registry, managers, counters>>

\* lines 206-208 and 265-267: the expire returns and the handler with it.
persist_expire(c) ==
    /\ running = NoTask
    /\ stack[c] # <<>>
    /\ Top(c).pc = "expire"
    /\ stack' = [stack EXCEPT ![c] = Popped(c)]
    /\ running' = c
    /\ UNCHANGED <<ws, inbox, registry, managers, redis, counters>>

\* lines 205-206 and 264-265: the awaited redis call raises (the server is
\* down, the connection drops), an lpush before its write is applied.  No
\* handler catches it: it unwinds to the endpoint.
persist_fails(c) ==
    /\ running = NoTask
    /\ stack[c] # <<>>
    /\ Top(c).fn \in {"send_message", "handle_document_change"}
    /\ Top(c).pc \in {"lpush", "expire"}
    /\ faults_left > 0
    /\ faults_left' = faults_left - 1
    /\ Raise(c)
    /\ UNCHANGED <<ws, inbox, registry, managers, redis, next_id, history,
                   frames_left, last>>

\* ------------------------------------------------------ websocket_endpoint
\* lines 319-327: connect has returned; the endpoint sends `connected` on
\* its own WebSocket.
endpoint_connected(c) ==
    /\ running = c
    /\ At(c, "websocket_endpoint", "connect")
    /\ IF ws[c] \in {"open", "hung"}
       THEN /\ stack' = [stack EXCEPT ![c] = <<[Top(c) EXCEPT !.pc = "connected"]>>]
            /\ running' = NoTask
            /\ inbox' = IF ws[c] = "open"
                        THEN [inbox EXCEPT ![c] =
                                Append(@, Event("connected", Top(c).user, NoKey, 0, 0))]
                        ELSE inbox
       ELSE /\ Raise(c)
            /\ UNCHANGED inbox
    /\ UNCHANGED <<ws, registry, managers, redis, counters>>

\* lines 322-334: an awaited send_text of the endpoint on its own WebSocket
\* returns or raises.  After `connected` the chat history is read and sent.
endpoint_send(c) ==
    /\ running = NoTask
    /\ stack[c] # <<>>
    /\ Top(c).fn = "websocket_endpoint"
    /\ Top(c).pc \in {"connected", "history"}
    /\ ws[c] # "hung"
    /\ IF ws[c] = "open"
       THEN /\ inbox' = IF Top(c).pc = "connected"
                        THEN [inbox EXCEPT ![c] = Append(@,
                                [Event("chat_history", NoUser, NoKey, 0, 0)
                                   EXCEPT !.messages = get_chat_history(Top(c).room,
                                                                        HistoryLimit)])]
                        ELSE inbox
            /\ stack' = [stack EXCEPT ![c] =
                  <<[Top(c) EXCEPT !.pc = IF Top(c).pc = "connected"
                                          THEN "history" ELSE "recv"]>>]
            /\ UNCHANGED running
       ELSE /\ Raise(c)
            /\ UNCHANGED inbox
    /\ UNCHANGED <<ws, registry, managers, redis, counters>>

\* handle_websocket_message, lines 365-415, on the frame m of user `user`
\* in room `room`.
\* A handler that takes a message of a type it does not know for a
\* protocol violation and raises.
unknown_message_raises(c) ==
    /\ Raise(c)
    /\ UNCHANGED <<inbox, managers, membership, redis, next_id, history>>

\* lines 414-415: a message of any other type is logged.
unknown_message(c) ==
    /\ stack' = [stack EXCEPT ![c] = Handling(c, <<>>)]
    /\ running' = c
    /\ UNCHANGED <<inbox, managers, membership, redis, next_id, history>>

handle_websocket_message(c, m, room, user) ==
    CASE m.type = "chat_message" -> send_message(c, room, user)
      [] m.type = "cursor_update" -> update_cursor_position(c, room, user, m.position)
      [] m.type = "document_change" -> handle_document_change(c, room, user, m.session_key)
      [] m.type = "start_collaboration" /\ m.document_id # NoDoc ->
             start_collaboration_session(c, room, m.document_id, user)
      [] m.type = "end_collaboration" /\ m.document_id # NoDoc ->
             end_collaboration_session(c, room, m.document_id, user)
      [] m.type = "ping" ->
             /\ CallSend(c, [Top(c) EXCEPT !.pc = "handle"], user,
                         Event("pong", user, NoKey, 0, 0))
             /\ UNCHANGED <<managers, membership, redis, next_id, sessions_history>>
      [] OTHER -> unknown_message(c)

\* lines 342-344: the user's last_activity is set to now.
Touched(us, user) ==
    IF user \in DOMAIN us THEN [us EXCEPT ![user].last_activity = "fresh"] ELSE us

\* lines 339-353: receive_text returns the frame m of the client.  A frame
\* that is no JSON is answered with an error event; of any other the
\* user's activity is noted and the frame is handled, which raises
\* AttributeError (message.get) if the JSON value is no object.
endpoint_receive(c, m) ==
    /\ running = NoTask
    /\ At(c, "websocket_endpoint", "recv")
    /\ ws[c] = "open"
    /\ frames_left > 0
    /\ frames_left' = frames_left - 1
    /\ last' = [last EXCEPT ![c] = m]
    /\ IF m.text = "garbage"
       THEN /\ inbox' = [inbox EXCEPT ![c] =
                           Append(@, Event("error", Top(c).user, NoKey, 0, 0))]
            /\ stack' = [stack EXCEPT ![c] = <<[Top(c) EXCEPT !.pc = "error"]>>]
            /\ running' = NoTask
            /\ UNCHANGED <<registry, managers, redis, next_id, history>>
       ELSE /\ user_sessions' = Touched(user_sessions, Top(c).user)
            /\ IF m.text = "array"
               THEN /\ Raise(c)
                    /\ UNCHANGED <<inbox, membership, managers, redis, next_id, history>>
               ELSE handle_websocket_message(c, m, Top(c).room, Top(c).user)
    /\ UNCHANGED <<ws, faults_left>>

\* lines 350-353: the awaited send_text of the error event returns, and the
\* loop goes on, or raises.
endpoint_error(c) ==
    /\ running = NoTask
    /\ At(c, "websocket_endpoint", "error")
    /\ ws[c] # "hung"
    /\ IF ws[c] = "open"
       THEN /\ stack' = [stack EXCEPT ![c] = <<[Top(c) EXCEPT !.pc = "recv"]>>]
            /\ UNCHANGED running
       ELSE Raise(c)
    /\ UNCHANGED <<ws, inbox, registry, managers, redis, counters>>

\* line 339: receive_text raises, the client being gone or the WebSocket
\* closed by the server; the exception ends the message loop.
endpoint_receive_fails(c) ==
    /\ running = NoTask
    /\ At(c, "websocket_endpoint", "recv")
    /\ ws[c] \in {"gone", "closed"}
    /\ Raise(c)
    /\ UNCHANGED <<ws, inbox, registry, managers, redis, counters>>

\* line 337: the handler has returned; the loop awaits the next frame.
endpoint_loop(c) ==
    /\ running = c
    /\ At(c, "websocket_endpoint", "handle")
    /\ stack' = [stack EXCEPT ![c] = <<[Top(c) EXCEPT !.pc = "recv"]>>]
    /\ running' = NoTask
    /\ UNCHANGED <<ws, inbox, registry, managers, redis, counters>>

\* lines 359-361: the finally clause disconnects the user.
endpoint_finally(c) ==
    /\ running = c
    /\ At(c, "websocket_endpoint", "finally")
    /\ stack' = [stack EXCEPT ![c] =
                    <<[Top(c) EXCEPT !.pc = "teardown"],
                      Frame("disconnect", "enter", Top(c).user, NoRoom)>>]
    /\ UNCHANGED <<running, ws, inbox, registry, managers, redis, counters>>

\* line 361: the disconnect of the finally clause has returned; the task ends.
endpoint_done(c) ==
    /\ running = c
    /\ At(c, "websocket_endpoint", "teardown")
    /\ stack' = [stack EXCEPT ![c] = <<[Top(c) EXCEPT !.pc = "done"]>>]
    /\ running' = NoTask
    /\ UNCHANGED <<ws, inbox, registry, managers, redis, counters>>

\* ------------------------------------------------------- background tasks
\* lines 434-437 and 453-456: the except clause logs the error, and the
\* task sleeps until its next iteration.
background_sleep(c) ==
    /\ running = c
    /\ stack[c] # <<>>
    /\ Top(c).fn \in {"cleanup_inactive_sessions", "monitor_connections"}
    /\ Top(c).pc = "except"
    /\ stack' = [stack EXCEPT ![c] = <<[Top(c) EXCEPT !.pc = "sleep"]>>]
    /\ running' = NoTask
    /\ UNCHANGED <<ws, inbox, registry, managers, redis, counters>>

\* The users whose last_activity is more than 3600 s old (lines 424-427).
Inactive == {u \in DOMAIN user_sessions : user_sessions[u].last_activity = "stale"}

\* cleanup_inactive_sessions, lines 419-427: the sleep is over, and the
\* inactive users are collected from user_sessions.  The dict is walked in
\* the order of its insertions, that of UserSeq when the users connected
\* in that order: the frame keeps the users collected and, as pos, how far
\* the for loop of line 429 has come in them.
cleanup_inactive_sessions(c) ==
    /\ running = NoTask
    /\ At(c, "cleanup_inactive_sessions", "sleep")
    /\ stack' = [stack EXCEPT ![c] = <<[Top(c) EXCEPT !.pc = "loop", !.pos = 0,
                                                      !.snap = Inactive]>>]
    /\ running' = c
    /\ UNCHANGED <<ws, inbox, registry, managers, redis, counters>>

\* lines 429-431 and 437: the next inactive user is disconnected, or, none
\* being left, the task sleeps.
cleanup_loop(c) ==
    /\ running = c
    /\ At(c, "cleanup_inactive_sessions", "loop")
    /\ LET f == Top(c)
           i == NextSlot(f.snap, UserSeq, f.pos)
       IN  IF i = 0
           THEN /\ stack' = [stack EXCEPT ![c] = <<[f EXCEPT !.pc = "sleep"]>>]
                /\ running' = NoTask
           ELSE /\ stack' = [stack EXCEPT ![c] =
                                <<[f EXCEPT !.pos = i],
                                  Frame("disconnect", "enter", UserSeq[i], NoRoom)>>]
                /\ running' = c
    /\ UNCHANGED <<ws, inbox, registry, managers, redis, counters>>

\* str(n) of a count.
Str(n) == <<"0", "1", "2", "3">>[n + 1]

\* The fields monitor_connections sets, in the order of lines 449-451.
MetricFields == <<"active_connections", "total_rooms", "timestamp">>

\* monitor_connections, lines 442-449: the sleep is over; the counts are
\* taken (kept in the frame as used and pos) and the first hset is awaited.
monitor_connections(c) ==
    /\ running = NoTask
    /\ At(c, "monitor_connections", "sleep")
    /\ stack' = [stack EXCEPT ![c] =
                    <<[Top(c) EXCEPT !.pc = "hset", !.snap = {1},
                                     !.used = Cardinality(DOMAIN active_connections),
                                     !.pos = Cardinality(DOMAIN room_users)]>>]
    /\ UNCHANGED <<running, ws, inbox, registry, managers, redis, counters>>

\* lines 449-451 and 456: the awaited hset returns, the field set; the next
\* one is awaited or, after the third, the sleep.  The frame's snap holds
\* the index of the field being set.
monitor_hset(c) ==
    /\ running = NoTask
    /\ At(c, "monitor_connections", "hset")
    /\ LET f == Top(c)
           i == CHOOSE k \in f.snap : TRUE
           value == CASE i = 1 -> Str(f.used)
                      [] i = 2 -> Str(f.pos)
                      [] OTHER -> "now"
       IN  /\ websocket_metrics' = Put(websocket_metrics, MetricFields[i], value)
           /\ stack' = [stack EXCEPT ![c] =
                           <<IF i = Len(MetricFields)
                             THEN [f EXCEPT !.pc = "sleep", !.snap = {}]
                             ELSE [f EXCEPT !.snap = {i + 1}]>>]
    /\ UNCHANGED <<running, ws, inbox, registry, managers, document_changes,
                   chat_messages, counters>>

\* lines 449-451: the awaited hset raises, redis being down.
monitor_fails(c) ==
    /\ running = NoTask
    /\ At(c, "monitor_connections", "hset")
    /\ faults_left > 0
    /\ faults_left' = faults_left - 1
    /\ Raise(c)
    /\ UNCHANGED <<ws, inbox, registry, managers, redis, next_id, history,
                   frames_left, last>>

\* ------------------------------------------------------------ environment
\* An hour passes in which user u's client has sent no frame.
goes_idle(u) ==
    /\ running = NoTask
    /\ u \in DOMAIN user_sessions
    /\ user_sessions[u].last_activity = "fresh"
    /\ user_sessions' = [user_sessions EXCEPT ![u].last_activity = "stale"]
    /\ UNCHANGED <<stack, running, ws, inbox, membership, managers, redis, counters>>

\* The client of an open WebSocket goes away (it closes, or the network
\* drops): sends and receives on the WebSocket raise from then on.
transport_lost(c) ==
    /\ running = NoTask
    /\ ws[c] = "open"
    /\ faults_left > 0
    /\ ws' = [ws EXCEPT ![c] = "gone"]
    /\ faults_left' = faults_left - 1
    /\ UNCHANGED <<stack, running, inbox, registry, managers, redis, next_id,
                   history, frames_left, last>>

\* The client of an open WebSocket stops reading: a send to it does not
\* complete.
transport_hangs(c) ==
    /\ running = NoTask
    /\ ws[c] = "open"
    /\ faults_left > 0
    /\ ws' = [ws EXCEPT ![c] = "hung"]
    /\ faults_left' = faults_left - 1
    /\ UNCHANGED <<stack, running, inbox, registry, managers, redis, next_id,
                   history, frames_left, last>>

\* ------------------------------------------------------------------- Init
\* frames clients may send and transports that may fail, no frame received yet.
Budget(frames, faults) ==
    /\ frames_left = frames
    /\ faults_left = faults
    /\ last = [c \in Conns |-> NoFrame]

Init ==
    /\ stack = Stacks([c \in Conns |-> <<>>])
    /\ running = NoTask
    /\ ws = [c \in Conns |-> "new"]
    /\ inbox = [c \in Conns |-> <<>>]
    /\ active_connections = EmptyDict
    /\ user_rooms = EmptyDict
    /\ room_users = EmptyDict
    /\ user_sessions = EmptyDict
    /\ collaboration_sessions = EmptyDict
    /\ cursor_positions = EmptyDict
    /\ chat_rooms = EmptyDict
    /\ document_changes = EmptyDict
    /\ chat_messages = EmptyDict
    /\ websocket_metrics = EmptyDict
    /\ next_id = 1
    /\ instance = EmptyDict
    /\ accepted = EmptyDict
    /\ send_failures = {}
    /\ Budget(MaxFrames, MaxFaults)

\* The fan-out of an event and the return to the message loop.
Relay(c) ==
    \/ endpoint_loop(c)
    \/ broadcast_to_room(c)
    \/ send_personal_message(c)

\* The redis writes that follow the broadcast of a chat message or of a
\* document change.
Persist(c) ==
    \/ persist_call(c)
    \/ persist_lpush(c)
    \/ persist_expire(c)

\* What a task does between its awaits and on the completion of a send or
\* of a redis call, while nothing fails.
Work(c) ==
    \/ Relay(c)
    \/ handler_return(c)
    \/ Persist(c)

\* The admission of a connection, after its authentication.
Admission(c) ==
    \/ connect_accept(c)
    \/ connect_room_info(c)
    \/ connect_return(c)
    \/ endpoint_connected(c)
    \/ endpoint_send(c)

\* The teardown of a connection.
Teardown(c) ==
    \/ endpoint_receive_fails(c)
    \/ endpoint_finally(c)
    \/ endpoint_done(c)
    \/ send_personal_message_return(c)
    \/ disconnect_enter(c)
    \/ \E closes \in BOOLEAN : disconnect_close(c, closes)
    \/ disconnect_rooms(c)
    \/ disconnect_room_loop(c)
    \/ disconnect_cleanup(c)

\* The user each connection of the single-room scenarios authenticates as.
UserOf(c) == UserSeq[c]

\* The engine from its construction: connections are opened, each by some
\* user to some room, admitted or rejected, served and torn down.
Next ==
    \E c \in Conns :
        \/ \E u \in Users, r \in Rooms : websocket_endpoint(c, u, r)
        \/ \E ok \in BOOLEAN : endpoint_auth(c, ok)
        \/ Admission(c)
        \/ \E m \in Frames : endpoint_receive(c, m)
        \/ endpoint_error(c)
        \/ Work(c)
        \/ transport_lost(c)
        \/ Teardown(c)

Spec == Init /\ [][Next]_vars

\* Connections opened to room R1, each by a user of its own, with a token
\* that is verified or not, every transport healthy.
NextAdmit ==
    \E c \in Conns :
        \/ websocket_endpoint(c, UserOf(c), "R1")
        \/ \E ok \in BOOLEAN : endpoint_auth(c, ok)
        \/ Admission(c)
        \/ broadcast_to_room(c)
        \/ send_personal_message(c)

SpecAdmit == Init /\ [][NextAdmit]_vars

\* ----------------------------------------------------------- the full room
\* The state in which A, B and C have connected to room R1 one after the
\* other, each admission complete before the next began, and every handler
\* awaits its client's next frame; `sessions` are the collaboration sessions
\* started since then, each by A, with its collaboration_started event
\* broadcast to the room.
FullRoom(sessions) ==
    LET joined(u) == Event("user_joined", u, NoKey, 0, 0)
        hello(u, us) == <<[Event("room_info", u, NoKey, 0, 0) EXCEPT !.users = us],
                          Event("connected", u, NoKey, 0, 0),
                          Event("chat_history", NoUser, NoKey, 0, 0)>>
        started == [i \in 1..Len(sessions) |->
                      Event("collaboration_started", "A", sessions[i], 0, 1)]
        keys == {sessions[i] : i \in 1..Len(sessions)}
    IN
    /\ stack = Stacks([c \in Conns |->
                          <<Frame("websocket_endpoint", "recv", UserOf(c), "R1")>>])
    /\ running = NoTask
    /\ ws = [c \in Conns |-> "open"]
    /\ inbox = [c \in Conns |->
                  CASE c = 1 -> hello("A", {"A"}) \o <<joined("B"), joined("C")>> \o started
                    [] c = 2 -> hello("B", {"A", "B"}) \o <<joined("C")>> \o started
                    [] c = 3 -> hello("C", {"A", "B", "C"}) \o started]
    /\ active_connections = [u \in Users |-> CHOOSE c \in Conns : UserOf(c) = u]
    /\ user_rooms = [u \in Users |-> {"R1"}]
    /\ room_users = [r \in {"R1"} |-> Users]
    /\ user_sessions = [u \in Users |-> [room_id |-> "R1", last_activity |-> "fresh"]]
    /\ collaboration_sessions =
          [k \in keys |-> [document_id |-> k[2], room_id |-> k[1], started_by |-> "A",
                           participants |-> {"A"}, version |-> 0]]
    /\ cursor_positions = IF keys = {} THEN EmptyDict ELSE [r \in {"R1"} |-> EmptyDict]
    /\ chat_rooms = EmptyDict
    /\ document_changes = EmptyDict
    /\ chat_messages = EmptyDict
    /\ websocket_metrics = EmptyDict
    /\ next_id = 1
    /\ instance = [k \in keys |-> 1]
    /\ accepted = [ki \in {<<k, 1>> : k \in keys} |-> <<>>]
    /\ send_failures = {}

Joined == FullRoom(<<>>)

\* The full room with document D1 under edit.
Editing == FullRoom(<<SessionKey("R1", "D1")>>)

\* Collaborative editing of document D1 in the full room, every transport
\* healthy.
CollabFrames == {Message("start_collaboration", "D1", NoKey, 0),
                 Message("document_change", NoDoc, SessionKey("R1", "D1"), 0),
                 Message("end_collaboration", "D1", NoKey, 0)}

NextCollab ==
    \E c \in Conns :
        \/ \E m \in CollabFrames : endpoint_receive(c, m)
        \/ Work(c)

InitCollab == Joined /\ Budget(MaxChanges, 0)

SpecCollab == InitCollab /\ [][NextCollab]_vars

\* Chat in the full room, every transport healthy.
NextChat ==
    \E c \in Conns :
        \/ \E m \in ChatFrames : endpoint_receive(c, m)
        \/ Relay(c)
        \/ Persist(c)

InitChat == Joined /\ Budget(MaxChats, 0)

SpecChat == InitChat /\ [][NextChat]_vars

\* Chat, cursor moves and changes of D1 in the full room, over transports
\* that may be lost.
PostFrames == ChatFrames
                \cup {Message("cursor_update", NoDoc, NoKey, 1),
                      Message("document_change", NoDoc, SessionKey("R1", "D1"), 0)}

NextPost ==
    \E c \in Conns :
        \/ \E m \in PostFrames : endpoint_receive(c, m)
        \/ Work(c)
        \/ transport_lost(c)
        \/ Teardown(c)

InitPost == Editing /\ Budget(MaxPosts, MaxLost)

SpecPost == InitPost /\ [][NextPost]_vars

\* Chat in the full room while a client may stop reading.  A task that can
\* take a step takes it in the end: the event loop resumes every coroutine
\* whose await has completed.
NextHung ==
    \E c \in Conns :
        \/ \E m \in ChatFrames : endpoint_receive(c, m)
        \/ Relay(c)
        \/ Persist(c)
        \/ transport_hangs(c)

InitHung == Joined /\ Budget(MaxStalled, MaxHung)

SpecHung ==
    /\ InitHung
    /\ [][NextHung]_vars
    /\ \A c \in Conns : WF_vars(Relay(c) \/ Persist(c))

\* Changes under any key or none, and ends of the session on D1, in the
\* full room with D1 under edit, every transport healthy.
EditFrames == ChangeFrames \cup {Message("end_collaboration", "D1", NoKey, 0),
                                 Message("start_collaboration", "D1", NoKey, 0)}

NextEdit ==
    \E c \in Conns :
        \/ \E m \in EditFrames : endpoint_receive(c, m)
        \/ Work(c)

InitEdit == Editing /\ Budget(MaxEdits, 0)

SpecEdit == InitEdit /\ [][NextEdit]_vars

\* Document D1 changed, its session ended and started again under the same
\* key, by A, who started it, and by B; every transport and redis healthy.
InitAnew == Editing /\ Budget(MaxRounds, 0)

SpecAnew ==
    /\ InitAnew
    /\ [][\/ \E c \in {d \in Conns : UserOf(d) \in {"A", "B"}} :
                \E m \in CollabFrames : endpoint_receive(c, m)
          \/ \E c \in Conns : Work(c)]_vars

\* Frames that are no JSON, no object, without type or of an unknown type,
\* and pings, sent to the full room with document D1 under edit, every
\* transport healthy.
OddFrames == MalformedFrames \cup OtherFrames

NextOdd ==
    \E c \in Conns :
        \/ \E m \in OddFrames : endpoint_receive(c, m)
        \/ endpoint_error(c)
        \/ Relay(c)
        \/ endpoint_finally(c)
        \/ disconnect_enter(c)
        \/ \E closes \in BOOLEAN : disconnect_close(c, closes)
        \/ disconnect_rooms(c)
        \/ disconnect_room_loop(c)
        \/ disconnect_cleanup(c)
        \/ endpoint_done(c)

InitOdd == Editing /\ Budget(MaxOdd, 0)

SpecOdd == InitOdd /\ [][NextOdd]_vars

\* Chat and changes of D1 in the full room, every transport healthy, while
\* a redis call may fail, or never return.
StoreFrames == ChatFrames \cup {Message("document_change", NoDoc, SessionKey("R1", "D1"), 0)}

NextStore ==
    \E c \in Conns :
        \/ \E m \in StoreFrames : endpoint_receive(c, m)
        \/ Relay(c)
        \/ Persist(c)
        \/ persist_fails(c)
        \/ endpoint_finally(c)
        \/ disconnect_enter(c)
        \/ \E closes \in BOOLEAN : disconnect_close(c, closes)
        \/ disconnect_rooms(c)
        \/ disconnect_room_loop(c)
        \/ disconnect_cleanup(c)
        \/ send_personal_message_return(c)
        \/ endpoint_done(c)

InitStore == Editing /\ Budget(MaxStored, MaxOutages)

SpecStore == InitStore /\ [][NextStore]_vars

\* The reaper in the full room: users go idle, a client may stop reading,
\* and the handlers whose WebSockets the reaper closes tear down beside
\* it.  The event loop runs every task that is
\* ready again and again in the end: no task is passed over for ever.
Disconnecting(t) ==
    \/ disconnect_enter(t)
    \/ \E closes \in BOOLEAN : disconnect_close(t, closes)
    \/ disconnect_rooms(t)
    \/ disconnect_room_loop(t)
    \/ disconnect_cleanup(t)
    \/ broadcast_to_room(t)
    \/ send_personal_message(t)

Reaping(t) ==
    \/ cleanup_inactive_sessions(t)
    \/ cleanup_loop(t)
    \/ background_sleep(t)

Leaving(c) ==
    \/ endpoint_receive_fails(c)
    \/ endpoint_finally(c)
    \/ endpoint_done(c)

NextReap ==
    \/ \E u \in Users : goes_idle(u)
    \/ \E c \in Conns : transport_hangs(c)
    \/ \E c \in Conns : Leaving(c)
    \/ Reaping(Reaper)
    \/ \E t \in Conns \cup {Reaper} : Disconnecting(t) \/ send_personal_message_return(t)

InitReap == Joined /\ Budget(0, MaxStuck)

SpecReap ==
    /\ InitReap
    /\ [][NextReap]_vars
    /\ SF_vars(Reaping(Reaper) \/ Disconnecting(Reaper)
                    \/ send_personal_message_return(Reaper))
    /\ \A c \in Conns : SF_vars(Leaving(c) \/ Disconnecting(c)
                                     \/ send_personal_message_return(c))

\* The two background tasks in the full room, every transport healthy:
\* the users of Sleepers go idle and are reaped while their handlers tear
\* down beside the reaper, and the monitor publishes its metrics to a redis
\* that may fail.
Sleepers == {"A"}

Watching(t) ==
    \/ monitor_connections(t)
    \/ monitor_hset(t)
    \/ monitor_fails(t)
    \/ background_sleep(t)

NextWatch ==
    \/ \E u \in Sleepers : goes_idle(u)
    \/ \E c \in Conns : Leaving(c)
    \/ Reaping(Reaper)
    \/ Watching(Monitor)
    \/ \E t \in Conns \cup {Reaper} : Disconnecting(t)

InitWatch == Joined /\ Budget(0, MaxMissed)

SpecWatch ==
    /\ InitWatch
    /\ [][NextWatch]_vars
    /\ SF_vars(Reaping(Reaper) \/ Disconnecting(Reaper))
    /\ SF_vars(Watching(Monitor))
    /\ \A c \in Conns : SF_vars(Leaving(c) \/ Disconnecting(c))

\* ------------------------------------------------------------- two rooms
\* User A has connected to room R1 (WebSocket 1), user B to room R1
\* (WebSocket 2), then user A again, to room R2 (WebSocket 3): the registry
\* holds A's latest WebSocket, and A is a member of both rooms.
TwoRooms ==
    LET hello(u, us) == <<[Event("room_info", u, NoKey, 0, 0) EXCEPT !.users = us],
                          Event("connected", u, NoKey, 0, 0),
                          Event("chat_history", NoUser, NoKey, 0, 0)>>
    IN
    /\ stack = Stacks([c \in Conns |->
                  <<Frame("websocket_endpoint", "recv",
                          IF c = 2 THEN "B" ELSE "A", IF c = 3 THEN "R2" ELSE "R1")>>])
    /\ running = NoTask
    /\ ws = [c \in Conns |-> "open"]
    /\ inbox = [c \in Conns |->
                  CASE c = 1 -> hello("A", {"A"}) \o <<Event("user_joined", "B", NoKey, 0, 0)>>
                    [] c = 2 -> hello("B", {"A", "B"})
                    [] c = 3 -> hello("A", {"A"})]
    /\ active_connections = [u \in {"A", "B"} |-> IF u = "A" THEN 3 ELSE 2]
    /\ user_rooms = [u \in {"A", "B"} |-> IF u = "A" THEN {"R1", "R2"} ELSE {"R1"}]
    /\ room_users = [r \in Rooms |-> IF r = "R1" THEN {"A", "B"} ELSE {"A"}]
    /\ user_sessions = [u \in {"A", "B"} |->
                           [room_id |-> IF u = "A" THEN "R2" ELSE "R1",
                            last_activity |-> "fresh"]]
    /\ collaboration_sessions = EmptyDict
    /\ cursor_positions = EmptyDict
    /\ chat_rooms = EmptyDict
    /\ document_changes = EmptyDict
    /\ chat_messages = EmptyDict
    /\ websocket_metrics = EmptyDict
    /\ next_id = 1
    /\ instance = EmptyDict
    /\ accepted = EmptyDict
    /\ send_failures = {}

\* Sessions started and clients leaving, in two rooms.
NextLeave ==
    \E c \in Conns :
        \/ endpoint_receive(c, Message("start_collaboration", "D1", NoKey, 0))
        \/ Relay(c)
        \/ handler_return(c)
        \/ transport_lost(c)
        \/ Teardown(c)

InitLeave == TwoRooms /\ Budget(MaxStarts, MaxLeft)

SpecLeave == InitLeave /\ [][NextLeave]_vars

\* User A connects, and connects again while its earlier connection is
\* open, to either room; chat goes through either connection.  Every
\* transport is healthy.
SpecAgain ==
    Init /\ [][\E c \in Conns :
                  \/ \E r \in Rooms : websocket_endpoint(c, "A", r)
                  \/ endpoint_auth(c, TRUE)
                  \/ Admission(c)
                  \/ \E m \in ChatFrames : endpoint_receive(c, m)
                  \/ Relay(c)
                  \/ Persist(c)]_vars

\* Cursors moved in two rooms, by A in both and by B in one, every
\* transport healthy.
InitCursor == TwoRooms /\ Budget(MaxMoves, 0)

SpecCursor ==
    InitCursor /\ [][\E c \in Conns :
                        \/ \E m \in CursorFrames : endpoint_receive(c, m)
                        \/ Relay(c)
                        \/ handler_return(c)]_vars

\* Three connections opened to room R1 at once, each by a user of its own:
\* websocket_endpoint has been called for each and none has been
\* authenticated yet.
InitJoin ==
    /\ stack = Stacks([c \in Conns |->
                          <<Frame("websocket_endpoint", "auth", UserOf(c), "R1")>>])
    /\ running = NoTask
    /\ ws = [c \in Conns |-> "new"]
    /\ inbox = [c \in Conns |-> <<>>]
    /\ active_connections = EmptyDict
    /\ user_rooms = EmptyDict
    /\ room_users = EmptyDict
    /\ user_sessions = EmptyDict
    /\ collaboration_sessions = EmptyDict
    /\ cursor_positions = EmptyDict
    /\ chat_rooms = EmptyDict
    /\ document_changes = EmptyDict
    /\ chat_messages = EmptyDict
    /\ websocket_metrics = EmptyDict
    /\ next_id = 1
    /\ instance = EmptyDict
    /\ accepted = EmptyDict
    /\ send_failures = {}
    /\ Budget(0, 0)

\* Their admissions, interleaved at the awaits, no transport failing; a
\* handler whose connect raises runs its finally clause.
NextJoin ==
    \E c \in Conns :
        \/ \E ok \in BOOLEAN : endpoint_auth(c, ok)
        \/ Admission(c)
        \/ endpoint_finally(c)
        \/ endpoint_done(c)
        \/ Disconnecting(c)
        \/ send_personal_message_return(c)

SpecJoin == InitJoin /\ [][NextJoin]_vars

\* The full room after A has sent MaxBacklog chat messages, one after the
\* other, each broadcast and stored in redis before the next.
Chatty ==
    LET joined(u) == Event("user_joined", u, NoKey, 0, 0)
        hello(u, us) == <<[Event("room_info", u, NoKey, 0, 0) EXCEPT !.users = us],
                          Event("connected", u, NoKey, 0, 0),
                          Event("chat_history", NoUser, NoKey, 0, 0)>>
        sent == [i \in 1..MaxBacklog |-> Event("chat_message", "A", NoKey, i, 0)]
    IN
    /\ stack = Stacks([c \in Conns |->
                          <<Frame("websocket_endpoint", "recv", UserOf(c), "R1")>>])
    /\ running = NoTask
    /\ ws = [c \in Conns |-> "open"]
    /\ inbox = [c \in Conns |->
                  CASE c = 1 -> hello("A", {"A"}) \o <<joined("B"), joined("C")>> \o sent
                    [] c = 2 -> hello("B", {"A", "B"}) \o <<joined("C")>> \o sent
                    [] c = 3 -> hello("C", {"A", "B", "C"}) \o sent]
    /\ active_connections = [u \in Users |-> CHOOSE c \in Conns : UserOf(c) = u]
    /\ user_rooms = [u \in Users |-> {"R1"}]
    /\ room_users = [r \in {"R1"} |-> Users]
    /\ user_sessions = [u \in Users |-> [room_id |-> "R1", last_activity |-> "fresh"]]
    /\ collaboration_sessions = EmptyDict
    /\ cursor_positions = EmptyDict
    /\ chat_rooms = [r \in {"R1"} |-> sent]
    /\ document_changes = EmptyDict
    /\ chat_messages = [r \in {"R1"} |-> [i \in 1..MaxBacklog |-> sent[MaxBacklog + 1 - i]]]
    /\ websocket_metrics = EmptyDict
    /\ next_id = MaxBacklog + 1
    /\ instance = EmptyDict
    /\ accepted = EmptyDict
    /\ send_failures = {}

\* Chat in the full room as the log reaches its cap, every transport
\* healthy.
InitCap == Chatty /\ Budget(MaxOver, 0)

SpecCap == InitCap /\ [][NextChat]_vars

\* The frames of OddFrames sent by users of whom some have been silent for
\* over an hour.
NextIdle ==
    \/ NextOdd
    \/ \E u \in Users : goes_idle(u)

SpecIdle == InitOdd /\ [][NextIdle]_vars

\* The reaper in the full room while users go idle and clients send frames
\* of a type the handler only logs; the handlers whose WebSockets the
\* reaper closes tear down beside it.  Every transport is healthy.
SpecWake ==
    InitOdd /\ [][\/ \E u \in Users : goes_idle(u)
                  \/ \E c \in Conns :
                        \/ endpoint_receive(c, Message("unknown", NoDoc, NoKey, 0))
                        \/ endpoint_loop(c)
                        \/ Leaving(c)
                  \/ Reaping(Reaper)
                  \/ \E t \in Conns \cup {Reaper} : Disconnecting(t)]_vars

\* Clients leaving the two rooms while the monitor publishes its metrics.
NextVacate ==
    \/ \E c \in Conns :
          \/ transport_lost(c)
          \/ Leaving(c)
          \/ Disconnecting(c)
    \/ monitor_connections(Monitor)
    \/ monitor_hset(Monitor)

InitVacate == TwoRooms /\ Budget(0, MaxLeft)

SpecVacate == InitVacate /\ [][NextVacate]_vars

\* ============================================================== properties
\* The document_change events of session ki (a key and an instance of it)
\* that WebSocket c has been sent, in the order sent.
ChangesSeen(c, ki) ==
    SelectSeq(inbox[c], LAMBDA e : /\ e.type = "document_change"
                                   /\ e.key = ki[1]
                                   /\ e.inst = ki[2])

\* The chat_message events WebSocket c has been sent, in the order sent.
ChatSeen(c) == SelectSeq(inbox[c], LAMBDA e : e.type = "chat_message")

Received(c, e) == \E i \in 1..Len(inbox[c]) : inbox[c][i] = e

\* Every handler awaits its client's next frame: nothing is in progress.
Quiet == \A c \in Conns : At(c, "websocket_endpoint", "recv")

\* The handler of connection c is in its message loop.
InLoop(c) ==
    /\ stack[c] # <<>>
    /\ Bottom(c).pc \in {"recv", "handle"}

\* Some task is inside a broadcast_to_room of event e.
Broadcasting(e) ==
    \E c \in Conns : \E i \in 1..Len(stack[c]) :
        /\ stack[c][i].fn = "broadcast_to_room"
        /\ stack[c][i].msg = e

\* C1: in every collaboration session the versions assigned to its N
\* accepted changes are 1, 2, ..., N in the order of acceptance: one version
\* per change, no gap, no repeat, whatever the interleaving of the
\* handle_document_change calls.
C1_VersionBijection ==
    \A ki \in DOMAIN accepted :
        \A i \in 1..Len(accepted[ki]) : accepted[ki][i].n = i

\* A session has accepted changes of two users, the handle_document_change
\* calls of both in progress at once.
C1_Witness ==
    \E ki \in DOMAIN accepted : \E c, d \in Conns :
        /\ c # d
        /\ Len(accepted[ki]) >= 2
        /\ \E i \in 1..Len(stack[c]) : stack[c][i].fn = "handle_document_change"
        /\ \E i \in 1..Len(stack[d]) : stack[d][i].fn = "handle_document_change"

\* C2: once nothing is in progress, any two clients connected throughout
\* have received the same sequence of changes of a session, and each
\* client's sequence grows by exactly 1 from one event to the next.  A
\* client is never sent its own changes (C10), so two clients are compared
\* on the changes neither of them authored, and a step may skip the
\* versions the receiver authored itself.
C2_SameChangeLog ==
    Quiet =>
    \A ki \in DOMAIN accepted : \A c, d \in Conns :
        LET others(q) == SelectSeq(ChangesSeen(q, ki),
                                   LAMBDA e : e.user \notin {UserOf(c), UserOf(d)})
            seen == ChangesSeen(c, ki)
        IN  /\ others(c) = others(d)
            /\ \A i \in 1..(Len(seen) - 1) :
                  /\ seen[i].n < seen[i + 1].n
                  /\ \A v \in (seen[i].n + 1)..(seen[i + 1].n - 1) :
                        accepted[ki][v].user = UserOf(c)

\* C3: no client is ever sent a change of a session whose version is lower
\* than the version of a change of that session it was sent before.
C3_DeliveryFollowsVersion ==
    \A ki \in DOMAIN accepted : \A c \in Conns :
        LET seen == ChangesSeen(c, ki)
        IN  \A i, j \in 1..Len(seen) : i < j => seen[i].n <= seen[j].n

\* C4: when a send of a broadcast has failed and the broadcast is over,
\* every member of the room with a working transport has been sent the
\* event, and the member whose send failed is registered no more.
C4_BroadcastSurvivesFailure ==
    \A f \in send_failures :
        ~Broadcasting(f.event) =>
            /\ \A c \in Conns :
                  (ws[c] = "open" /\ UserOf(c) # f.event.user) => Received(c, f.event)
            /\ f.user \notin DOMAIN active_connections

\* C5: a connection whose own transport works stays registered, stays in
\* its room, and its handler stays in its message loop, whatever happens to
\* the transports of the others.
C5_FailureContained ==
    \A c \in Conns :
        ws[c] = "open" =>
            /\ InLoop(c)
            /\ UserOf(c) \in DOMAIN active_connections
            /\ UserOf(c) \in Get(room_users, "R1", {})

\* The chat_message event of the i-th message of the room's log.
ChatEvents == UNION {{Event("chat_message", u, NoKey, i, 0) : u \in Users} :
                        i \in 1..MaxStalled}

\* C6: once a chat message is accepted, every client with a working
\* transport is sent its event in the end, even if the send to some other
\* member never completes.
C6_HungPeerDoesNotStall ==
    \A e \in ChatEvents : \A c \in Conns :
        (\E i \in 1..Len(Get(chat_rooms, "R1", <<>>)) : chat_rooms["R1"][i] = e)
            ~> (Received(c, e) \/ ws[c] # "open")

\* C7: once the handler of a connection has ended, its disconnect
\* complete, and the user has no other connection served, the user takes
\* part in no collaboration session, and no session is left without
\* participants.
C7_DisconnectLeavesSessions ==
    \A c \in Conns :
        (/\ Bottom(c).pc = "done"
         /\ \A d \in Conns \ {c} : Bottom(d).user = Bottom(c).user => ~InLoop(d)) =>
            \A k \in DOMAIN collaboration_sessions :
                /\ Bottom(c).user \notin collaboration_sessions[k].participants
                /\ collaboration_sessions[k].participants # {}

\* get_room_users, lines 116-118.
get_room_users(room) == ListFrom(Get(room_users, room, {}), UserSeq, 0)

\* C8: whenever the event loop is between two tasks, the members of each
\* room are the registered users that have joined it.
C8_MembershipAccurate ==
    running = NoTask =>
        \A r \in Rooms :
            {get_room_users(r)[i] : i \in 1..Len(get_room_users(r))}
                = {u \in DOMAIN active_connections : r \in Get(user_rooms, u, {})}

\* C9: every client is sent the chat messages of the room in the order in
\* which send_message appended them to the room's log.
C9_ChatInSendOrder ==
    \A c \in Conns :
        LET seen == ChatSeen(c)
        IN  \A i, j \in 1..Len(seen) : i < j => seen[i].n < seen[j].n

\* C10: no client is sent a cursor_update or a document_change of its own
\* user, and once the broadcast of a chat message is over every registered
\* member of the room with a working transport, its author too, has been
\* sent it.
C10_ExclusionSemantics ==
    /\ \A c \in Conns : \A i \in 1..Len(inbox[c]) :
          inbox[c][i].type \in {"cursor_update", "document_change"}
              => inbox[c][i].user # UserOf(c)
    /\ \A i \in 1..Len(Get(chat_rooms, "R1", <<>>)) :
          LET e == chat_rooms["R1"][i]
          IN  ~Broadcasting(e) =>
                  \A c \in Conns :
                      (/\ ws[c] = "open"
                       /\ UserOf(c) \in DOMAIN active_connections
                       /\ UserOf(c) \in Get(room_users, "R1", {}))
                          => Received(c, e)

\* The step is the receipt of a frame by the handler of connection c.
Receives(c) ==
    /\ frames_left' = frames_left - 1
    /\ stack'[c] # stack[c]

\* C11: the receipt of a document_change whose session_key is missing or
\* names no active session sends an error event to the submitter, and
\* assigns no version, changes no session, appends nothing to the durable
\* log and starts no broadcast.
C11_RejectedChangeReported ==
    [][\A c \in Conns :
          (/\ Receives(c)
           /\ last'[c].type = "document_change"
           /\ last'[c].session_key \notin DOMAIN collaboration_sessions)
          => /\ Len(inbox'[c]) = Len(inbox[c]) + 1
             /\ inbox'[c][Len(inbox'[c])].type = "error"
             /\ collaboration_sessions' = collaboration_sessions
             /\ accepted' = accepted
             /\ document_changes' = document_changes
             /\ \A i \in 1..Len(stack'[c]) : stack'[c][i].fn # "broadcast_to_room"
      ]_vars

\* The step ends the invocation of coroutine fn that is frame i of task c,
\* by its return or by an exception.
Ends(c, i, fn) ==
    /\ i \in 1..Len(stack[c])
    /\ stack[c][i].fn = fn
    /\ \/ Len(stack'[c]) < i
       \/ stack'[c][i].fn # fn

\* C12: whenever an invocation of disconnect(user_id) ends, user_id is
\* absent from active_connections, from every room and from user_sessions,
\* and every registered member with a working transport of each room the
\* user belonged to has been sent user_left{user_id}.
C12_DisconnectAlwaysCleans ==
    [][\A c \in Conns : \A i \in 1..Len(stack[c]) :
          Ends(c, i, "disconnect") =>
              LET u == stack[c][i].user
              IN  /\ u \notin DOMAIN active_connections'
                  /\ u \notin DOMAIN user_rooms'
                  /\ \A r \in DOMAIN room_users' : u \notin room_users'[r]
                  /\ u \notin DOMAIN user_sessions'
                  /\ \A r \in stack[c][i].snap : \A v \in Get(room_users', r, {}) :
                        (/\ v \in DOMAIN active_connections'
                         /\ ws'[active_connections'[v]] = "open")
                        => \E k \in 1..Len(inbox'[active_connections'[v]]) :
                              inbox'[active_connections'[v]][k]
                                  = Event("user_left", u, NoKey, 0, 0)
      ]_vars

\* C13: an invocation of send_personal_message ends by returning to its
\* caller, never by an exception; and when its send failed, it ends with
\* the target user out of the registry, of every room and of the presence
\* records.
C13_SendNeverRaises ==
    [][\A c \in Conns : \A i \in 1..Len(stack[c]) :
          Ends(c, i, "send_personal_message") =>
              LET u == stack[c][i].user
              IN  /\ stack'[c] = SubSeq(stack[c], 1, i - 1)
                  /\ stack[c][i].pc = "except" =>
                        /\ u \notin DOMAIN active_connections'
                        /\ u \notin DOMAIN user_rooms'
                        /\ \A r \in DOMAIN room_users' : u \notin room_users'[r]
                        /\ u \notin DOMAIN user_sessions'
      ]_vars

\* C15: the step in which a token is rejected closes the WebSocket with
\* code 4001 and changes no registry entry, room, presence record, session,
\* chat or durable record, and sends nothing; and the rejected handler has
\* ended without running any teardown, its WebSocket never registered.
C15_RejectionTouchesNothing ==
    /\ [](\A c \in Conns :
            (stack[c] # <<>> /\ Bottom(c).pc = "rejected") =>
                /\ Len(stack[c]) = 1
                /\ ws[c] = "rejected"
                /\ inbox[c] = <<>>
                /\ \A u \in DOMAIN active_connections : active_connections[u] # c)
    /\ [][\A c \in Conns :
            (/\ At(c, "websocket_endpoint", "auth")
             /\ stack'[c] # <<>>
             /\ stack'[c][1].pc = "rejected")
            => /\ ws'[c] = "rejected"
               /\ registry' = registry
               /\ managers' = managers
               /\ redis' = redis
               /\ inbox' = inbox
       ]_vars

\* A token has been rejected while another user is connected to the room.
C15_Witness ==
    \E c \in Conns :
        /\ stack[c] # <<>>
        /\ Bottom(c).pc = "rejected"
        /\ DOMAIN active_connections # {}
        /\ Get(room_users, "R1", {}) # {}

\* C16: a frame that is no JSON object with a type is answered, in the step
\* that receives it, with one error event to its sender and with nothing
\* to anyone else, and its sender stays registered, its WebSocket open and
\* its handler in the message loop.
C16_MalformedAnswered ==
    [][\A c \in Conns :
          (Receives(c) /\ last'[c].type = NoType) =>
              /\ inbox'[c] = Append(inbox[c], Event("error", Bottom(c).user, NoKey, 0, 0))
              /\ \A d \in Conns \ {c} : inbox'[d] = inbox[d]
              /\ membership' = membership
              /\ ws'[c] = "open"
              /\ stack'[c][1].pc \notin {"finally", "teardown", "crashed"}
      ]_vars

\* C17: the step that receives a message of an unrecognised type changes no
\* room, registry entry, collaboration session, cursor, chat or durable
\* record, sends nothing to anyone and leaves every WebSocket as it was;
\* and the handler's next step takes it back to the message loop, with the
\* same left unchanged.
C17_UnknownIgnored ==
    [][\A c \in Conns :
          /\ (Receives(c) /\ last'[c].type = "unknown") =>
                /\ stack'[c] = Handling(c, <<>>)
                /\ managers' = managers
                /\ membership' = membership
                /\ redis' = redis
                /\ inbox' = inbox
                /\ ws' = ws
          /\ (/\ running = c
              /\ At(c, "websocket_endpoint", "handle")
              /\ last[c].type = "unknown"
              /\ stack'[c] # stack[c]) =>
                /\ stack'[c] = <<[Bottom(c) EXCEPT !.pc = "recv"]>>
                /\ managers' = managers
                /\ membership' = membership
                /\ redis' = redis
                /\ inbox' = inbox
                /\ ws' = ws
      ]_vars

\* A message of an unrecognised type has been received and its sender,
\* still registered, awaits the next frame.
C17_Witness ==
    \E c \in Conns :
        /\ last[c].type = "unknown"
        /\ At(c, "websocket_endpoint", "recv")
        /\ ws[c] = "open"
        /\ Bottom(c).user \in DOMAIN active_connections
        /\ active_connections[Bottom(c).user] = c

\* C20: the step that receives end_collaboration for a document from a
\* user who is no participant of its session, or whose session does not
\* exist, leaves every collaboration session (participants and version
\* included), every cursor and every durable record unchanged, sends
\* nothing to anyone and begins no broadcast, the handler returning at once.
C20_EndByStrangerIsNoOp ==
    [][\A c \in Conns :
          LET key == SessionKey(Bottom(c).room, last'[c].document_id)
          IN  (/\ Receives(c)
               /\ last'[c].type = "end_collaboration"
               /\ last'[c].document_id # NoDoc
               /\ \/ key \notin DOMAIN collaboration_sessions
                  \/ Bottom(c).user \notin collaboration_sessions[key].participants)
              => /\ collaboration_sessions' = collaboration_sessions
                 /\ cursor_positions' = cursor_positions
                 /\ redis' = redis
                 /\ sessions_history' = sessions_history
                 /\ inbox' = inbox
                 /\ stack'[c] = Handling(c, <<>>)
      ]_vars

\* A user who is no participant of the session of D1, which others are
\* editing, has just asked to end it.
C20_Witness ==
    \E c \in Conns :
        LET key == SessionKey("R1", "D1")
        IN  /\ running = c
            /\ At(c, "websocket_endpoint", "handle")
            /\ last[c].type = "end_collaboration"
            /\ last[c].document_id = "D1"
            /\ key \in DOMAIN collaboration_sessions
            /\ Bottom(c).user \notin collaboration_sessions[key].participants
            /\ collaboration_sessions[key].version > 0

\* The users event e of the handler frame f is for that are connected now:
\* the registered members of its room with an open WebSocket, but the
\* author of a document change.
LiveRecipients(f) ==
    {u \in Get(room_users, f.room, {}) :
        /\ u \in DOMAIN active_connections
        /\ ws[active_connections[u]] = "open"
        /\ ~(f.fn = "handle_document_change" /\ u = f.user)}

\* The frame f of a send_message or handle_document_change is at one of its
\* redis calls.
Storing(f) ==
    /\ f.fn \in {"send_message", "handle_document_change"}
    /\ f.pc \in {"lpush", "expire"}

\* C18: while send_message or handle_document_change awaits its redis lpush
\* or expire, however long, every live recipient has been sent the event
\* already; and so it has at the step in which the awaited call fails.
C18_BroadcastBeforeStore ==
    /\ [](\A c \in Conns : \A i \in 1..Len(stack[c]) :
            Storing(stack[c][i]) =>
                \A u \in LiveRecipients(stack[c][i]) :
                    Received(active_connections[u], stack[c][i].msg))
    /\ [][\A c \in Conns :
            (faults_left' = faults_left - 1 /\ stack'[c] # stack[c]) =>
                /\ Storing(Top(c))
                /\ \A u \in LiveRecipients(Top(c)) :
                       /\ Received(active_connections[u], Top(c).msg)
                       /\ inbox'[active_connections[u]] = inbox[active_connections[u]]
       ]_vars

\* The redis call of a chat message has failed and has ended its sender's
\* handler, nothing of the message is in redis, and the other two users,
\* connected, have been sent the message.
C18_Witness ==
    \E c \in Conns :
        /\ faults_left = 0
        /\ last[c].type = "chat_message"
        /\ ~InLoop(c)
        /\ chat_messages = EmptyDict
        /\ \E e \in {Event("chat_message", UserOf(c), NoKey, n, 0) : n \in 1..MaxStored} :
              /\ \E i \in 1..Len(Get(chat_rooms, "R1", <<>>)) : chat_rooms["R1"][i] = e
              /\ \A d \in Conns \ {c} : ws[d] = "open" /\ Received(d, e)

\* User u's last_activity is older than the idle threshold.
Idle(u) ==
    /\ u \in DOMAIN user_sessions
    /\ user_sessions[u].last_activity = "stale"

\* User u has been disconnected: no registry entry, no room, no presence
\* record, and user_left sent to every connected member of the room.
Reaped(u) ==
    /\ u \notin DOMAIN active_connections
    /\ u \notin DOMAIN user_rooms
    /\ u \notin DOMAIN user_sessions
    /\ \A r \in DOMAIN room_users : u \notin room_users[r]
    /\ \A v \in Get(room_users, "R1", {}) :
          (v \in DOMAIN active_connections /\ ws[active_connections[v]] = "open")
              => Received(active_connections[v], Event("user_left", u, NoKey, 0, 0))

\* C14: every user whose last_activity has gone past the idle threshold,
\* no frame of theirs arriving, is disconnected by the reaper in the end:
\* removed from registry, rooms and presence, user_left sent to the room.
C14_IdleReaped == \A u \in Users : Idle(u) ~> Reaped(u)

\* The coroutine each background task runs.
Loop(t) == IF t = Reaper THEN "cleanup_inactive_sessions" ELSE "monitor_connections"

\* Background task t is in its loop, at one of the places pcs.
InLoopAt(t, pcs) ==
    /\ stack[t] # <<>>
    /\ Bottom(t).fn = Loop(t)
    /\ Bottom(t).pc \in pcs

\* C19: the reaper and the monitor never end: each is always in its loop,
\* asleep, in an iteration or in its except clause; and whenever one has
\* caught what its iteration raised, it sleeps and then begins its next
\* iteration.
C19_LoopsSurvive ==
    /\ [](\A t \in {Reaper, Monitor} :
            InLoopAt(t, {"sleep", "loop", "hset", "except"}))
    /\ \A t \in {Reaper, Monitor} :
            InLoopAt(t, {"except"}) ~> InLoopAt(t, {"sleep"})
    /\ \A t \in {Reaper, Monitor} :
            InLoopAt(t, {"sleep"}) ~> InLoopAt(t, {"loop", "hset"})

\* A metrics publish has failed and the monitor is publishing again, and
\* the reaper has caught what a disconnect of its sweep raised.
C19_Witness ==
    /\ faults_left = 0
    /\ InLoopAt(Monitor, {"hset"})
    /\ InLoopAt(Reaper, {"except"})
    /\ Bottom(Reaper).snap # {}

\* C21: for every room and every limit from 0 on, get_chat_history returns
\* the last min(limit, n) messages of the room's log of n messages, in the
\* order sent, so never more than limit of them, and the empty list for a
\* room without messages.
C21_HistoryIsLastLimit ==
    \A room \in Rooms : \A limit \in 0..MaxLimit :
        LET log == Get(chat_rooms, room, <<>>)
            n == Len(log)
            k == IF limit < n THEN limit ELSE n
        IN  /\ get_chat_history(room, limit) = SubSeq(log, n - k + 1, n)
            /\ Len(get_chat_history(room, limit)) <= limit

\* C22: every stored session has a participant; a session leaves the store
\* in exactly the steps in which end_collaboration_session is called for it
\* by its only participant, and that step begins the broadcast of
\* collaboration_ended to its room; and when that broadcast has returned,
\* every connected member of the room has been sent the event.
C22_EndedWithLastParticipant ==
    /\ [](\A k \in DOMAIN collaboration_sessions :
            collaboration_sessions[k].participants # {})
    /\ [](\A c \in Conns :
            (running = c /\ stack[c] # <<>> /\ Top(c).fn = "end_collaboration_session") =>
                \A u \in Get(room_users, Top(c).room, {}) :
                    (u \in DOMAIN active_connections /\ ws[active_connections[u]] = "open")
                        => \E i \in 1..Len(inbox[active_connections[u]]) :
                               /\ inbox[active_connections[u]][i].type = "collaboration_ended"
                               /\ inbox[active_connections[u]][i].user = Top(c).user)
    /\ [][\A k \in Keys :
            (k \in DOMAIN collaboration_sessions /\ k \notin DOMAIN collaboration_sessions')
            <=> \E c \in Conns :
                   /\ Receives(c)
                   /\ last'[c].type = "end_collaboration"
                   /\ k = SessionKey(Bottom(c).room, last'[c].document_id)
                   /\ k \in DOMAIN collaboration_sessions
                   /\ collaboration_sessions[k].participants = {Bottom(c).user}
                   /\ Top(c)'.fn = "broadcast_to_room"
                   /\ Top(c)'.msg.type = "collaboration_ended"
                   /\ Top(c)'.msg.key = k
       ]_vars

\* The session of D1, which a second user had joined, has been ended by the
\* last of its participants, and the broadcast of collaboration_ended has
\* returned.
C22_Witness ==
    \E c \in Conns :
        /\ running = c
        /\ stack[c] # <<>>
        /\ Top(c).fn = "end_collaboration_session"
        /\ Top(c).user # "A"
        /\ SessionKey("R1", "D1") \notin DOMAIN collaboration_sessions

\* C23: the step that receives start_collaboration for a document creates
\* the session, version 0, the caller its starter and only participant, if
\* the key has none; if it has one, the step adds the caller to its
\* participants and changes nothing else of it, so nothing at all when the
\* caller is a participant already.  No other session changes.
C23_CreateOrJoin ==
    [][\A c \in Conns :
          LET doc == last'[c].document_id
              room == Bottom(c).room
              user == Bottom(c).user
              key == SessionKey(room, doc)
          IN  (Receives(c) /\ last'[c].type = "start_collaboration" /\ doc # NoDoc) =>
                 /\ DOMAIN collaboration_sessions' = DOMAIN collaboration_sessions \cup {key}
                 /\ \A k \in DOMAIN collaboration_sessions \ {key} :
                        collaboration_sessions'[k] = collaboration_sessions[k]
                 /\ IF key \notin DOMAIN collaboration_sessions
                    THEN collaboration_sessions'[key] =
                            [document_id |-> doc, room_id |-> room, started_by |-> user,
                             participants |-> {user}, version |-> 0]
                    ELSE /\ collaboration_sessions'[key] =
                               [collaboration_sessions[key] EXCEPT
                                   !.participants = @ \cup {user}]
                         /\ user \in collaboration_sessions[key].participants
                               => collaboration_sessions' = collaboration_sessions
      ]_vars

\* A user who is a participant of the session of D1, changes of which have
\* been accepted, has just started it again.
C23_Witness ==
    \E c \in Conns :
        LET key == SessionKey("R1", "D1")
        IN  /\ running = c
            /\ stack[c] # <<>>
            /\ Top(c).fn = "broadcast_to_room"
            /\ Top(c).msg.type = "collaboration_started"
            /\ last[c].type = "start_collaboration"
            /\ key \in DOMAIN collaboration_sessions
            /\ collaboration_sessions[key].version > 0
            /\ collaboration_sessions[key].started_by # Bottom(c).user
            /\ Cardinality(collaboration_sessions[key].participants) > 1

\* No task is inside a disconnect.
Settled ==
    \A t \in Tasks : \A i \in 1..Len(stack[t]) : stack[t][i].fn # "disconnect"

\* C24: while no disconnect is in progress, every room of the registry has
\* a member, and the total_rooms the monitor takes for its report is the
\* number of rooms that have members.
C24_RoomsHaveMembers ==
    /\ [](Settled => \A r \in DOMAIN room_users : room_users[r] # {})
    /\ [][(/\ Settled
           /\ At(Monitor, "monitor_connections", "sleep")
           /\ stack'[Monitor] # stack[Monitor])
          => Bottom(Monitor)'.pos =
                Cardinality({r \in DOMAIN room_users : room_users[r] # {}})
       ]_vars

\* C25: the step that receives a frame from a connection, whatever the
\* frame, leaves the last_activity of the connection's user, if the user has
\* a presence record, set to the time of the frame.
C25_EveryFrameTouches ==
    [][\A c \in Conns :
          (Receives(c) /\ Bottom(c).user \in DOMAIN user_sessions) =>
              /\ Bottom(c).user \in DOMAIN user_sessions'
              /\ user_sessions'[Bottom(c).user].last_activity = "fresh"
      ]_vars

\* C26: the chat log of a room holds at most 100 messages, and they are the
\* most recent messages sent to the room, oldest first: of the next_id - 1
\* messages sent so far the last min(next_id - 1, 100), each once, in the
\* order sent.
C26_LogHoldsNewest ==
    LET log == Get(chat_rooms, "R1", <<>>)
        sent == next_id - 1
    IN  /\ Len(log) <= ChatCap
        /\ Len(log) = IF sent < ChatCap THEN sent ELSE ChatCap
        /\ \A i \in 1..Len(log) :
              /\ log[i].type = "chat_message"
              /\ log[i].n = sent - Len(log) + i

\* The log is full and its oldest message has been dropped.
C26_Witness ==
    /\ "R1" \in DOMAIN chat_rooms
    /\ Len(chat_rooms["R1"]) = ChatCap
    /\ chat_rooms["R1"][1].n > 1
    /\ Quiet

\* C27: connect(user, room) adds the user to the room, sends
\* user_joined{user} to every other member and never to the user, and sends
\* the user a room_info listing the room's members, the user among them.
\* In the step that registers the user it is made a member of the room; the
\* room_info is sent with the member set of that moment; and when the
\* connect of a connection ends, its WebSocket has been sent the room_info
\* and no user_joined of its own user, and of any two members the one that
\* was there first has been sent the user_joined of the other, unless the
\* other's broadcast is still under way.
C27_ConnectAnnounces ==
    [][\A c \in Conns :
          LET u == Bottom(c).user
              r == Bottom(c).room
              joined(v) == Event("user_joined", v, NoKey, 0, 0)
              sent(d, e) == \E i \in 1..Len(inbox'[d]) : inbox'[d][i] = e
              announcing(d) == \E i \in 1..Len(stack'[d]) :
                                  /\ stack'[d][i].fn = "broadcast_to_room"
                                  /\ stack'[d][i].msg = joined(UserOf(d))
          IN  /\ (At(c, "connect", "accept") /\ stack'[c] # stack[c])
                    => /\ r \in DOMAIN room_users'
                       /\ u \in room_users'[r]
                       /\ Top(c)'.fn = "broadcast_to_room"
                       /\ Top(c)'.msg = joined(u)
                       /\ Top(c)'.excl = u
              /\ (At(c, "connect", "joined") /\ stack'[c] # stack[c])
                    => /\ Len(inbox'[c]) = Len(inbox[c]) + 1
                       /\ inbox'[c][Len(inbox'[c])].type = "room_info"
                       /\ inbox'[c][Len(inbox'[c])].users = room_users[r]
                       /\ u \in room_users[r]
              /\ (/\ Len(stack[c]) >= 2
                  /\ stack[c][2].fn = "connect"
                  /\ \A i \in 1..Len(stack'[c]) : stack'[c][i].fn # "connect")
                    => /\ \E i \in 1..Len(inbox'[c]) :
                              /\ inbox'[c][i].type = "room_info"
                              /\ u \in inbox'[c][i].users
                       /\ ~sent(c, joined(u))
                       /\ \A d \in Conns \ {c} :
                              (/\ r \in DOMAIN room_users'
                               /\ UserOf(d) \in room_users'[r]
                               /\ ~announcing(d))
                                 => \/ sent(d, joined(u))
                                    \/ sent(c, joined(UserOf(d)))]_vars

C29_LastWriteWins ==
    /\ [](\A c \in Conns :
             (stack[c] # <<>> /\ last[c].type = "cursor_update")
                => Get(Get(cursor_positions, Bottom(c).room, EmptyDict),
                       Bottom(c).user, 0) = last[c].position)
    /\ [][\A r \in Rooms : \A u \in Users :
             LET at(cp) == Get(Get(cp, r, EmptyDict), u, 0)
                 moved == {c \in Conns : /\ Receives(c)
                                         /\ last'[c].type = "cursor_update"
                                         /\ Bottom(c).room = r
                                         /\ Bottom(c).user = u}
             IN  IF moved = {}
                 THEN at(cursor_positions') = at(cursor_positions)
                 ELSE \A c \in moved : at(cursor_positions') = last'[c].position]_vars

\* A has moved its cursor in R1 to 1 and then to 2, B has moved its own in
\* between or before, and 2 is the stored position of A beside B's.
C29_Witness ==
    /\ "R1" \in DOMAIN cursor_positions
    /\ DOMAIN cursor_positions["R1"] = {"A", "B"}
    /\ cursor_positions["R1"]["A"] = 2
    /\ \E i, j \in 1..Len(inbox[2]) :
          /\ i < j
          /\ inbox[2][i] = Event("cursor_update", "A", NoKey, 1, 0)
          /\ inbox[2][j] = Event("cursor_update", "A", NoKey, 2, 0)

\* C30: when a user has reconnected while the handler of its earlier
\* connection runs, the end of the earlier handler neither closes nor
\* unregisters the newer connection: no step of the earlier handler's
\* termination (its finally clause and the disconnect it calls) changes the
\* state of the newer, open WebSocket, the user's registry entry, which is
\* that WebSocket, or the user's membership of the newer connection's room.
C30_NewerConnectionSurvives ==
    [][\A c, d \in Conns :
          (/\ c # d
           /\ stack[c] # <<>> /\ stack[d] # <<>>
           /\ Bottom(c).user = Bottom(d).user
           /\ Bottom(c).pc \in {"finally", "teardown"}
           /\ stack'[c] # stack[c]
           /\ InLoop(d)
           /\ ws[d] = "open"
           /\ Bottom(d).user \in DOMAIN active_connections
           /\ active_connections[Bottom(d).user] = d
           /\ Bottom(d).room \in DOMAIN room_users
           /\ Bottom(d).user \in room_users[Bottom(d).room])
             => /\ ws'[d] = "open"
                /\ Bottom(d).user \in DOMAIN active_connections'
                /\ active_connections'[Bottom(d).user] = d
                /\ Bottom(d).room \in DOMAIN room_users'
                /\ Bottom(d).user \in room_users'[Bottom(d).room]]_vars

\* C31: a user joining or leaving a room while a broadcast to the room is
\* under way does not abort the broadcast.  From the full room, where users
\* only leave, and as long as no send has failed: a broadcast_to_room ends
\* only by returning to its caller, and when it ends every member of the
\* room but the excluded one whose WebSocket is open has been sent the
\* event.
C31_BroadcastSurvivesChurn ==
    [][\A t \in Tasks :
          (/\ stack[t] # <<>>
           /\ Top(t).fn = "broadcast_to_room"
           /\ send_failures' = {}
           /\ stack'[t] # stack[t]
           /\ ~(/\ Len(stack'[t]) >= Len(stack[t])
                /\ stack'[t][Len(stack[t])].fn = "broadcast_to_room"))
             => /\ stack'[t] = Popped(t)
                /\ \A u \in Get(room_users, Top(t).room, {}) \ {Top(t).excl} :
                      (u \in DOMAIN active_connections
                         /\ ws[active_connections[u]] = "open")
                        => \E i \in 1..Len(inbox[active_connections[u]]) :
                              inbox[active_connections[u]][i] = Top(t).msg]_vars

\* C32: a failure of the redis append in send_message or in
\* handle_document_change does not tear down the sender's connection.  The
\* step in which the awaited redis call raises leaves the sender's handler
\* in its message loop, and, every transport being healthy, each user stays
\* registered with its own open WebSocket, a member of its room, its
\* handler in the loop.
C32_StoreFailureContained ==
    /\ [][\A c \in Conns :
             (/\ faults_left' = faults_left - 1
              /\ stack[c] # <<>>
              /\ Top(c).pc \in {"lpush", "expire"}
              /\ stack'[c] # stack[c])
                => Bottom(c)'.pc \in {"recv", "handle"}]_vars
    /\ [](\A c \in Conns :
             /\ InLoop(c)
             /\ ws[c] = "open"
             /\ Bottom(c).user \in DOMAIN active_connections
             /\ active_connections[Bottom(c).user] = c
             /\ Bottom(c).room \in DOMAIN room_users
             /\ Bottom(c).user \in room_users[Bottom(c).room])

\* C33: when two teardowns of one user overlap (the reaper's eviction and
\* the disconnect of the handler's finally clause), neither raises and each
\* room of the user is sent one user_left.  No step of a task that is
\* inside a disconnect unwinds the caller of that disconnect, and no
\* WebSocket is sent the user_left of one user twice.
C33_OverlappingTeardowns ==
    /\ [][\A t \in Tasks :
             \A k \in 1..Len(stack[t]) :
                (/\ stack[t][k].fn = "disconnect"
                 /\ \A j \in 1..(k - 1) : stack[t][j].fn # "disconnect"
                 /\ stack'[t] # stack[t])
                   => /\ Len(stack'[t]) >= k - 1
                      /\ SubSeq(stack'[t], 1, k - 1) = SubSeq(stack[t], 1, k - 1)]_vars
    /\ [](\A c \in Conns : \A u \in Users :
             Cardinality({i \in 1..Len(inbox[c]) :
                             inbox[c][i] = Event("user_left", u, NoKey, 0, 0)}) <= 1)

\* C34: the reaper disconnects only a user who is idle at the moment of the
\* disconnect: when cleanup_inactive_sessions calls disconnect for a user
\* who has session data, the user's last activity is more than an hour old
\* at that moment, not only at the scan.
C34_ReapedWhileIdle ==
    [][(/\ At(Reaper, "cleanup_inactive_sessions", "loop")
        /\ stack'[Reaper] # stack[Reaper]
        /\ Top(Reaper)'.fn = "disconnect"
        /\ Top(Reaper)'.user \in DOMAIN user_sessions)
          => user_sessions[Top(Reaper)'.user].last_activity = "stale"]_vars

\* C35: handle_document_change assigns a version of session (room r,
\* document d) only when it is called for room r by a user who is a
\* participant of the session then.  A step that changes the version of a
\* stored session is the receipt of a document_change naming the session,
\* over a connection to the session's room, from one of its participants.
C35_OnlyParticipantsChange ==
    [][\A k \in DOMAIN collaboration_sessions \cap DOMAIN collaboration_sessions' :
          (collaboration_sessions'[k].version # collaboration_sessions[k].version)
             => \E c \in Conns :
                   /\ Receives(c)
                   /\ last'[c].type = "document_change"
                   /\ last'[c].session_key = k
                   /\ k[1] = Bottom(c).room
                   /\ Bottom(c).user \in collaboration_sessions[k].participants]_vars

\* C36: within one durable change log document_changes:{session_key} no
\* two stored entries carry the same version, also when the session has
\* been ended and started again under the same key.
C36_StoredVersionsDistinct ==
    \A k \in DOMAIN document_changes :
        \A i, j \in 1..Len(document_changes[k]) :
            i # j => document_changes[k][i].n # document_changes[k][j].n

====
